---------------------------- MODULE Spec2Model ----------------------------
(***************************************************************************)
(* A model of the merge engine of the wildlife graduate-position data set, *)
(* scripts/intelligent_data_merger.py: the identity hash, the completeness *)
(* score, the better-data rule, the merge of two records, the loading of   *)
(* the store files and of an incoming batch, and merge_data with the       *)
(* places where a run can fail.                                            *)
(* With it, the rule-based classifier of                                   *)
(* scripts/improved_graduate_detection.py and the salary and location      *)
(* parsers of new_attempt.py, each called alone.                           *)
(*                                                                         *)
(* A string is a sequence of symbols.  A symbol is one character, except   *)
(* that an organization-type suffix "(state)" is one symbol and the en and *)
(* em dashes are written "EN" and "EM".  A position record is a function   *)
(* from the keys it has to their values; a key the record lacks is not in  *)
(* its domain.  A dict is a sequence of entries [k, v] with distinct keys, *)
(* in insertion order, as a Python dict.  A timestamp is the number of the *)
(* merge run that took it.                                                 *)
(***************************************************************************)
EXTENDS Integers, Sequences, FiniteSets, TLC

VARIABLES
    histFile,      \* data/historical_positions.json: [kind, records]
    verifiedFile,  \* data/verified_graduate_assistantships.json (read only)
    backupDir,     \* the files copied by the last create_backup
    archiveFile,   \* the last archive/merged_positions_<ts>.json
    clock,         \* number of merge_data runs started so far
    outcome,       \* how the last run ended: "none", "ok" or "raised"
    steps,         \* the steps the last run completed, in order
    prevHist,      \* histFile as it was when the last run started
    lastDoc,       \* the incoming document of the last run that read one
    loaded,        \* historical_positions of the last run (a dict)
    merged,        \* merged_positions of the last run (a dict)
    events,        \* one entry per incoming position the last run processed
    stats,         \* the MergeStats of the last run
    arg,           \* the argument of the last call of a function called alone
    ret,           \* what that call returned
    masterCsv,     \* data/job_listings.csv: [kind, columns, rows]
    tmpCsv         \* data/job_listings.csv.tmp

\* the variables of merge_data
mergeVars == <<histFile, verifiedFile, backupDir, archiveFile, clock, outcome,
               steps, prevHist, lastDoc, loaded, merged, events, stats>>

vars == <<histFile, verifiedFile, backupDir, archiveFile, clock, outcome,
          steps, prevHist, lastDoc, loaded, merged, events, stats, arg, ret,
          masterCsv, tmpCsv>>

\* the files of update_master_csv
csvVars == <<masterCsv, tmpCsv>>

\* a CSV file that does not exist
NoCsv == [kind |-> "missing", columns |-> <<>>, rows |-> <<>>]

\* update_master_csv has not run and its files do not exist
CsvIdle == masterCsv = NoCsv /\ tmpCsv = NoCsv

--------------------------------------------------------------------------
(* Bounds of the model *)

\* merge_data runs in one behaviour
MaxMerges == 2
\* records in one incoming document
MaxBatch == 1
\* records in the store file the first run finds
MaxInit == 1
\* records in the one incoming document of a single run (BatchSpec)
MaxJobs == 2
\* designated fields that a scored record lacks, or has (ScoreSpec)
MaxEmpty == 2
\* symbols of a location string (StateSpec)
MaxLoc == 5

--------------------------------------------------------------------------
(* Strings *)

Whitespace == {" "}

RECURSIVE LStrip(_)
LStrip(s) == IF s # <<>> /\ Head(s) \in Whitespace THEN LStrip(Tail(s)) ELSE s

RECURSIVE RStrip(_)
RStrip(s) ==
    IF s # <<>> /\ s[Len(s)] \in Whitespace
    THEN RStrip(SubSeq(s, 1, Len(s) - 1))
    ELSE s

\* str.strip()
Strip(s) == LStrip(RStrip(s))

LowerChar(c) ==
    CASE c = "A" -> "a"
      [] c = "B" -> "b"
      [] c = "C" -> "c"
      [] c = "(State)" -> "(state)"
      [] OTHER -> c

\* str.lower()
Lower(s) == [i \in DOMAIN s |-> LowerChar(s[i])]

\* title.replace(en dash, '-').replace(em dash, '-')
ReplaceDashes(s) == [i \in DOMAIN s |-> IF s[i] \in {"EN", "EM"} THEN "-" ELSE s[i]]

OrgSuffixes == {"(state)", "(federal)", "(private)"}

NotOrgSuffix(c) == c \notin OrgSuffixes

\* org.replace('(state)', '').replace('(federal)', '').replace('(private)', '')
RemoveOrgSuffixes(s) == SelectSeq(s, NotOrgSuffix)

--------------------------------------------------------------------------
(* Position records *)

\* position.get(key, '')
Get(position, key) == IF key \in DOMAIN position THEN position[key] ELSE <<>>

\* f"{title}|{org}|{location}"
HashString(title, org, location) ==
    title \o <<"|">> \o org \o <<"|">> \o location

\* generate_position_hash; the MD5 digest of the hash string is taken to be
\* collision free, so the digest is the hash string itself.
generate_position_hash(position) ==
    LET title == ReplaceDashes(Lower(Strip(Get(position, "title"))))
        org == Strip(RemoveOrgSuffixes(Lower(Strip(Get(position, "organization")))))
        location == Lower(Strip(Get(position, "location")))
    IN  HashString(title, org, location)

fields_to_check ==
    <<"title", "organization", "location", "salary_range",
      "application_deadline", "published_date", "starting_date",
      "hours_per_week", "education_required", "experience_required",
      "description", "job_id", "url">>

structured_fields ==
    <<"salary_range", "application_deadline", "published_date",
      "starting_date", "hours_per_week", "education_required">>

\* A list value is written as a sequence that starts with the symbol "[";
\* no string of the model starts with it.
IsList(value) == value # <<>> /\ Head(value) = "["

\* Mutant: only a string counts as a filled field
IsFilledStringOnly(position, field) ==
    LET value == Get(position, field)
    IN  ~IsList(value) /\ Strip(value) # <<>>

\* isinstance(value, str) and value.strip(), or isinstance(value, list) and value
IsFilled(position, field) ==
    LET value == Get(position, field)
    IN  IF IsList(value) THEN Len(value) > 1 ELSE Strip(value) # <<>>

\* filled_fields of calculate_data_completeness
FilledFields(position) ==
    Cardinality({i \in DOMAIN fields_to_check : IsFilled(position, fields_to_check[i])})

\* calculate_data_completeness returns FilledFields / len(fields_to_check);
\* the score is kept as this numerator over the fixed denominator.
calculate_data_completeness(position) == FilledFields(position)

ScoreDenominator == Len(fields_to_check)

\* sum(1 for field in structured_fields if position.get(field, '').strip()),
\* for string values
StructuredCount(position) ==
    Cardinality({i \in DOMAIN structured_fields :
                    Strip(Get(position, structured_fields[i])) # <<>>})

\* new_score > existing_score + 0.1, with scores n/13 and e/13, multiplied by 130
ExceedsThreshold(new_score, existing_score) ==
    10 * new_score > 10 * existing_score + ScoreDenominator

\* Mutant: a tie in the structured fields counts as better
is_better_data_on_tie(new_position, existing_position) ==
    \/ ExceedsThreshold(calculate_data_completeness(new_position),
                        calculate_data_completeness(existing_position))
    \/ StructuredCount(new_position) >= StructuredCount(existing_position)

is_better_data(new_position, existing_position) ==
    LET new_score == calculate_data_completeness(new_position)
        existing_score == calculate_data_completeness(existing_position)
    IN  IF ExceedsThreshold(new_score, existing_score)
        THEN TRUE
        ELSE StructuredCount(new_position) > StructuredCount(existing_position)

\* position.get(field, '').strip() raises AttributeError on a value that is
\* no string (a list)
StructuredRaises(position) ==
    \E i \in DOMAIN structured_fields : IsList(Get(position, structured_fields[i]))

\* is_better_data raises: the completeness margin is not reached and one of
\* the two sums over the structured fields meets a value that is no string
is_better_data_raises(new_position, existing_position) ==
    /\ ~ExceedsThreshold(calculate_data_completeness(new_position),
                         calculate_data_completeness(existing_position))
    /\ StructuredRaises(new_position) \/ StructuredRaises(existing_position)

\* the record with the keys of both, b's value where both have the key
Plus(a, b) == [k \in DOMAIN a \cup DOMAIN b |-> IF k \in DOMAIN b THEN b[k] ELSE a[k]]

\* dict with key set to value
SetKey(position, key, value) ==
    [k \in DOMAIN position \cup {key} |-> IF k = key THEN value ELSE position[k]]

\* Mutant: first_seen is taken from the new position like any other key
UpdateAllFieldsAndFirstSeen(existing_position, new_position) ==
    Plus(existing_position, new_position)

\* for key, value in new_position.items(): if key not in ['first_seen']: merged[key] = value
UpdateAllFields(existing_position, new_position) ==
    LET taken == DOMAIN new_position \ {"first_seen"}
    IN  [k \in DOMAIN existing_position \cup taken |->
            IF k \in taken THEN new_position[k] ELSE existing_position[k]]

\* Mutant: better data replaces the stored record but for its first_seen
merge_positions_replacing(new_position, existing_position, now) ==
    IF is_better_data(new_position, existing_position)
    THEN SetKey(SetKey(UpdateAllFields([k \in DOMAIN existing_position \cap {"first_seen"} |->
                                           existing_position[k]],
                                       new_position),
                       "data_enhanced", TRUE),
                "enhanced_at", now)
    ELSE SetKey(existing_position, "last_updated", now)

\* Mutant: a record that keeps its data is marked as not enhanced
merge_positions_unmarking(new_position, existing_position, now) ==
    IF is_better_data(new_position, existing_position)
    THEN SetKey(SetKey(UpdateAllFields(existing_position, new_position),
                       "data_enhanced", TRUE),
                "enhanced_at", now)
    ELSE SetKey(SetKey(existing_position, "data_enhanced", FALSE), "last_updated", now)

merge_positions(new_position, existing_position, now) ==
    IF is_better_data(new_position, existing_position)
    THEN SetKey(SetKey(UpdateAllFields(existing_position, new_position),
                       "data_enhanced", TRUE),
                "enhanced_at", now)
    ELSE SetKey(existing_position, "last_updated", now)

--------------------------------------------------------------------------
(* Dicts: sequences of entries [k, v] with distinct keys, insertion order *)

DictKeys(d) == {d[i].k : i \in DOMAIN d}

\* key in d
DictHas(d, key) == key \in DictKeys(d)

\* d[key]
DictGet(d, key) == d[CHOOSE i \in DOMAIN d : d[i].k = key].v

\* d[key] = value: an existing key keeps its place, a new key goes last
DictPut(d, key, value) ==
    IF DictHas(d, key)
    THEN [i \in DOMAIN d |-> IF d[i].k = key THEN [k |-> key, v |-> value] ELSE d[i]]
    ELSE Append(d, [k |-> key, v |-> value])

\* list(d.values())
DictValues(d) == [i \in DOMAIN d |-> d[i].v]

--------------------------------------------------------------------------
(* Files.  A JSON document is [kind, records]: "array" is a bare array of  *)
(* records, "positions" an object with a positions array, "jobs" an object *)
(* with a jobs array (and no positions key), "torn" a file whose write did *)
(* not finish (no valid JSON), "missing" no file.                          *)

MissingFile == [kind |-> "missing", records |-> <<>>]

\* json.load raises on a file that is not valid JSON
JsonLoadRaises(file) == file.kind = "torn"

\* data.get('positions', []) if isinstance(data, dict) else data
PositionsOf(file) ==
    IF file.kind \in {"array", "positions"} THEN file.records ELSE <<>>

\* Mutant: a position whose hash is in the dict already is left out
RECURSIVE PutAll_first(_, _)
PutAll_first(d, positions) ==
    IF positions = <<>> THEN d
    ELSE LET h == generate_position_hash(Head(positions))
         IN  PutAll_first(IF DictHas(d, h) THEN d ELSE DictPut(d, h, Head(positions)),
                          Tail(positions))

\* for position in positions: historical_positions[hash] = position
RECURSIVE PutAll(_, _)
PutAll(d, positions) ==
    IF positions = <<>> THEN d
    ELSE PutAll(DictPut(d, generate_position_hash(Head(positions)), Head(positions)),
                Tail(positions))

\* for position in positions: if hash not in historical_positions: ... = position
RECURSIVE PutAbsent(_, _)
PutAbsent(d, positions) ==
    IF positions = <<>> THEN d
    ELSE LET h == generate_position_hash(Head(positions))
         IN  PutAbsent(IF DictHas(d, h) THEN d ELSE DictPut(d, h, Head(positions)),
                       Tail(positions))

\* Mutant: a store file that does not exist is an error
LoadHistoricalRaisesOnMissing(historical_file, verified_file) ==
    \/ historical_file.kind = "missing"
    \/ JsonLoadRaises(historical_file)
    \/ verified_file.kind # "missing" /\ JsonLoadRaises(verified_file)

LoadHistoricalRaises(historical_file, verified_file) ==
    \/ historical_file.kind # "missing" /\ JsonLoadRaises(historical_file)
    \/ verified_file.kind # "missing" /\ JsonLoadRaises(verified_file)

load_historical_data(historical_file, verified_file) ==
    PutAbsent(PutAll(<<>>, PositionsOf(historical_file)), PositionsOf(verified_file))

\* FileNotFoundError, json.load on invalid JSON, or data.get on a list
LoadNewRaises(new_file) == new_file.kind \in {"missing", "torn", "array"}

\* jobs = data.get('jobs', []); new_positions[hash] = position
load_new_data(new_file) ==
    PutAll(<<>>, IF new_file.kind = "jobs" THEN new_file.records ELSE <<>>)

\* Mutant: the backup step copies nothing
create_backup_nothing(historical_file, verified_file) ==
    [historical |-> MissingFile, verified |-> MissingFile]

\* shutil.copy2 of each store file that exists
create_backup(historical_file, verified_file) ==
    [historical |-> historical_file, verified |-> verified_file]

NoBackup == [historical |-> MissingFile, verified |-> MissingFile]

--------------------------------------------------------------------------
(* merge_data *)

NoStats ==
    [historical_positions |-> 0, new_positions_added |-> 0, positions_updated |-> 0,
     positions_enhanced |-> 0, positions_preserved |-> 0, total_final_positions |-> 0]

\* merged_position.get('data_enhanced')
IsEnhanced(position) ==
    "data_enhanced" \in DOMAIN position /\ position["data_enhanced"] = TRUE

\* One pass of "for pos_hash, new_position in new_positions.items()"
ProcessNew(acc, historical_positions, pos_hash, new_position, now) ==
    IF DictHas(historical_positions, pos_hash)
    THEN LET existing_position == DictGet(historical_positions, pos_hash)
             merged_position == merge_positions(new_position, existing_position, now)
         IN  [merged |-> DictPut(acc.merged, pos_hash, merged_position),
              enhanced |-> acc.enhanced + (IF IsEnhanced(merged_position) THEN 1 ELSE 0),
              updated |-> acc.updated + 1,
              preserved |-> acc.preserved - 1,
              added |-> acc.added,
              events |-> Append(acc.events,
                  [hash |-> pos_hash, matched |-> TRUE, new |-> new_position,
                   existing |-> existing_position, result |-> merged_position,
                   better |-> is_better_data(new_position, existing_position)])]
    ELSE LET inserted == SetKey(new_position, "first_seen", now)
         IN  [merged |-> DictPut(acc.merged, pos_hash, inserted),
              enhanced |-> acc.enhanced,
              updated |-> acc.updated,
              preserved |-> acc.preserved,
              added |-> acc.added + 1,
              events |-> Append(acc.events,
                  [hash |-> pos_hash, matched |-> FALSE, new |-> new_position,
                   existing |-> <<>>, result |-> inserted, better |-> FALSE])]

RECURSIVE ProcessAll(_, _, _, _)
ProcessAll(acc, historical_positions, new_positions, now) ==
    IF new_positions = <<>> THEN acc
    ELSE ProcessAll(ProcessNew(acc, historical_positions, Head(new_positions).k,
                               Head(new_positions).v, now),
                    historical_positions, Tail(new_positions), now)

\* The reconcile part of merge_data: merged_positions, the counters and the
\* log of what was done with each incoming position
Reconcile(historical_positions, new_positions, now) ==
    ProcessAll([merged |-> historical_positions, enhanced |-> 0, updated |-> 0,
                preserved |-> Len(historical_positions), added |-> 0, events |-> <<>>],
               historical_positions, new_positions, now)

\* the incoming positions at which the reconcile loop raises
RaisingAt(historical_positions, new_positions) ==
    {i \in DOMAIN new_positions :
        /\ DictHas(historical_positions, new_positions[i].k)
        /\ is_better_data_raises(new_positions[i].v,
                                 DictGet(historical_positions, new_positions[i].k))}

ReconcileRaises(historical_positions, new_positions) ==
    RaisingAt(historical_positions, new_positions) # {}

\* the incoming positions processed before the loop raises
BeforeRaise(historical_positions, new_positions) ==
    LET raising == RaisingAt(historical_positions, new_positions)
        first == CHOOSE i \in raising : \A j \in raising : i <= j
    IN  SubSeq(new_positions, 1, first - 1)

\* Mutant: the records that were matched stay counted as preserved
StatsOf_all_preserved(historical_positions, r) ==
    [historical_positions |-> Len(historical_positions),
     new_positions_added |-> r.added,
     positions_updated |-> r.updated,
     positions_enhanced |-> r.enhanced,
     positions_preserved |-> Len(historical_positions),
     total_final_positions |-> Len(r.merged)]

StatsOf(historical_positions, r) ==
    [historical_positions |-> Len(historical_positions),
     new_positions_added |-> r.added,
     positions_updated |-> r.updated,
     positions_enhanced |-> r.enhanced,
     positions_preserved |-> r.preserved,
     total_final_positions |-> Len(r.merged)]

\* output_data of _save_merged_data
OutputData(merged_positions) ==
    [kind |-> "positions", records |-> DictValues(merged_positions)]

--------------------------------------------------------------------------
(* The records the runs are fed.  KeyE, KeyV and KeyN have the hash string *)
(* a-|b||c (KeyN with no organization key); KeyP has a-|b|b|c.             *)

KeyE == [title |-> <<"a", "-">>, organization |-> <<"b">>, location |-> <<"|", "c">>]
KeyV == [title |-> <<" ", "A", "EN">>, organization |-> <<"B", " ", "(State)">>,
         location |-> <<"|", "C", " ">>]
KeyN == [title |-> <<"a", "EM", "|", "b">>, location |-> <<"c">>]
KeyP == [title |-> <<"a", "-", "|", "b">>, organization |-> <<"b">>, location |-> <<"c">>]

Salary == [salary_range |-> <<"x">>]
Text == [description |-> <<"x">>, url |-> <<"x">>]

\* A record as a run at time 0 wrote it after it took better data for it
Enhanced0 == [first_seen |-> 0, data_enhanced |-> TRUE, enhanced_at |-> 0,
              last_updated |-> 0]

\* The incoming records: the plain record, the same position with a salary
\* and a first_seen of its own, and a record of the same hash with a salary
\* and no organization key
Records == {KeyE, Plus(Plus(KeyE, Salary), [first_seen |-> 0]), Plus(KeyN, Salary)}

\* KeyE as another scrape spelt it, with text fields, a blank salary and a
\* first_seen of its own
Variant == Plus(Plus(KeyV, Text), [first_seen |-> 0, salary_range |-> <<" ">>])

RECURSIVE SeqsUpTo(_, _)
SeqsUpTo(S, n) ==
    IF n = 0 THEN {<<>>}
    ELSE LET shorter == SeqsUpTo(S, n - 1)
         IN  shorter \cup {Append(s, x) : s \in shorter, x \in S}

\* The store the first run finds: none, a bare array written by hand or by
\* another script, or the document an earlier run wrote
InitStores ==
    {MissingFile}
    \cup {[kind |-> "array", records |-> s] : s \in SeqsUpTo(Records, MaxInit) \ {<<>>}}
    \cup {[kind |-> "array", records |-> <<Variant>>],
          [kind |-> "positions", records |-> <<Plus(Plus(KeyE, Salary), Enhanced0)>>]}

InitVerified ==
    {MissingFile, [kind |-> "positions", records |-> <<KeyP>>]}

\* The incoming documents
Docs ==
    {[kind |-> "jobs", records |-> s] : s \in SeqsUpTo(Records, MaxBatch)}
    \cup {[kind |-> k, records |-> <<KeyE>>] : k \in {"array", "positions"}}
    \cup {MissingFile}

--------------------------------------------------------------------------
(* The state machine *)

Init ==
    /\ histFile \in InitStores
    /\ verifiedFile \in InitVerified
    /\ backupDir = NoBackup
    /\ archiveFile = MissingFile
    /\ clock = 0
    /\ outcome = "none"
    /\ steps = <<>>
    /\ prevHist = histFile
    /\ lastDoc = MissingFile
    /\ loaded = <<>>
    /\ merged = <<>>
    /\ events = <<>>
    /\ stats = NoStats
    /\ arg = <<>>
    /\ ret = <<>>
    /\ CsvIdle

\* What every run records, whatever its end
Started ==
    /\ clock < MaxMerges
    /\ clock' = clock + 1
    /\ prevHist' = histFile
    /\ UNCHANGED <<verifiedFile, arg, ret, csvVars>>

\* The run got as far as the reconcile loop with result r
Reconciled(historical_positions, r) ==
    /\ backupDir' = create_backup(histFile, verifiedFile)
    /\ loaded' = historical_positions
    /\ merged' = r.merged
    /\ events' = r.events

\* A run of merge_data(new_file) in which no step fails
MergeOk(new_file) ==
    /\ Started
    /\ lastDoc' = new_file
    /\ ~LoadHistoricalRaises(histFile, verifiedFile)
    /\ ~LoadNewRaises(new_file)
    /\ ~ReconcileRaises(load_historical_data(histFile, verifiedFile), load_new_data(new_file))
    /\ LET historical_positions == load_historical_data(histFile, verifiedFile)
           r == Reconcile(historical_positions, load_new_data(new_file), clock + 1)
       IN  /\ Reconciled(historical_positions, r)
           /\ stats' = StatsOf(historical_positions, r)
           /\ histFile' = OutputData(r.merged)
           /\ archiveFile' = OutputData(r.merged)
    /\ outcome' = "ok"
    /\ steps' = <<"backup", "load_historical", "load_new", "reconcile", "write", "archive">>

\* create_backup raises (mkdir or a copy fails): nothing else is done
MergeBackupFails ==
    /\ Started
    /\ backupDir' \in {NoBackup, create_backup(histFile, MissingFile)}
    /\ outcome' = "raised"
    /\ steps' = <<>>
    /\ loaded' = <<>>
    /\ merged' = <<>>
    /\ events' = <<>>
    /\ stats' = NoStats
    /\ UNCHANGED <<histFile, archiveFile, lastDoc>>

\* load_historical_data or load_new_data raises
MergeLoadFails(new_file) ==
    /\ Started
    /\ lastDoc' = new_file
    /\ LoadHistoricalRaises(histFile, verifiedFile) \/ LoadNewRaises(new_file)
    /\ backupDir' = create_backup(histFile, verifiedFile)
    /\ outcome' = "raised"
    /\ steps' = IF LoadHistoricalRaises(histFile, verifiedFile)
                THEN <<"backup">>
                ELSE <<"backup", "load_historical">>
    /\ loaded' = IF LoadHistoricalRaises(histFile, verifiedFile)
                 THEN <<>>
                 ELSE load_historical_data(histFile, verifiedFile)
    /\ merged' = <<>>
    /\ events' = <<>>
    /\ stats' = NoStats
    /\ UNCHANGED <<histFile, archiveFile>>

\* is_better_data raises in the reconcile loop: merge_data raises with the
\* store file untouched
MergeReconcileFails(new_file) ==
    /\ Started
    /\ lastDoc' = new_file
    /\ ~LoadHistoricalRaises(histFile, verifiedFile)
    /\ ~LoadNewRaises(new_file)
    /\ ReconcileRaises(load_historical_data(histFile, verifiedFile), load_new_data(new_file))
    /\ LET historical_positions == load_historical_data(histFile, verifiedFile)
           r == Reconcile(historical_positions,
                          BeforeRaise(historical_positions, load_new_data(new_file)),
                          clock + 1)
       IN  Reconciled(historical_positions, r)
    /\ stats' = NoStats
    /\ outcome' = "raised"
    /\ steps' = <<"backup", "load_historical", "load_new">>
    /\ UNCHANGED <<histFile, archiveFile>>

\* What a failed write leaves of the store file: open(historical_file, 'w')
\* raised and the file is as it was, or it was truncated and json.dump did
\* not finish, which leaves text that is no JSON document
FailedWrite(old_file, truncated) ==
    IF truncated THEN [kind |-> "torn", records |-> <<>>] ELSE old_file

\* The write of the store file in _save_merged_data fails
MergeWriteFails(new_file, truncated) ==
    /\ Started
    /\ lastDoc' = new_file
    /\ ~LoadHistoricalRaises(histFile, verifiedFile)
    /\ ~LoadNewRaises(new_file)
    /\ ~ReconcileRaises(load_historical_data(histFile, verifiedFile), load_new_data(new_file))
    /\ LET historical_positions == load_historical_data(histFile, verifiedFile)
           r == Reconcile(historical_positions, load_new_data(new_file), clock + 1)
       IN  Reconciled(historical_positions, r)
    /\ histFile' = FailedWrite(histFile, truncated)
    /\ stats' = NoStats
    /\ outcome' = "raised"
    /\ steps' = <<"backup", "load_historical", "load_new", "reconcile">>
    /\ UNCHANGED archiveFile

\* The store file is written, the write of the archive copy fails
MergeArchiveFails(new_file) ==
    /\ Started
    /\ lastDoc' = new_file
    /\ ~LoadHistoricalRaises(histFile, verifiedFile)
    /\ ~LoadNewRaises(new_file)
    /\ ~ReconcileRaises(load_historical_data(histFile, verifiedFile), load_new_data(new_file))
    /\ LET historical_positions == load_historical_data(histFile, verifiedFile)
           r == Reconcile(historical_positions, load_new_data(new_file), clock + 1)
       IN  /\ Reconciled(historical_positions, r)
           /\ histFile' = OutputData(r.merged)
    /\ archiveFile' = [kind |-> "torn", records |-> <<>>]
    /\ stats' = NoStats
    /\ outcome' = "raised"
    /\ steps' = <<"backup", "load_historical", "load_new", "reconcile", "write">>

Next ==
    \/ \E new_file \in Docs : MergeOk(new_file)
    \/ MergeBackupFails
    \/ \E new_file \in Docs : MergeLoadFails(new_file)
    \/ \E new_file \in Docs, truncated \in BOOLEAN : MergeWriteFails(new_file, truncated)
    \/ \E new_file \in Docs : MergeArchiveFails(new_file)

Spec == Init /\ [][Next]_vars

--------------------------------------------------------------------------
(* One record merged into a store of one record, over a wide range of      *)
(* records: every combination of absent, blank and filled fields below.    *)

NoFields == [k \in {} |-> <<>>]

\* the key absent, or the key with one of the values
Optional(key, values) == {NoFields} \cup {(key :> v) : v \in values}

PairFields(salary) ==
    {Plus(Plus(Plus(a, b), c), d) :
        a \in Optional("salary_range", {<<" ">>, salary}),
        b \in Optional("application_deadline", {<<"x">>}),
        c \in Optional("description", {<<"x">>}),
        d \in Optional("url", {<<"x">>})}

PairMarks ==
    {Plus(a, b) : a \in Optional("first_seen", {0}),
                  b \in {NoFields, [data_enhanced |-> TRUE, enhanced_at |-> 0],
                         [last_updated |-> 0]}}

PairStored == {Plus(Plus(KeyE, f), m) : f \in PairFields(<<"x">>), m \in PairMarks}

PairIncoming ==
    {Plus(Plus(KeyV, f), m) : f \in PairFields(<<"y">>), m \in PairMarks}
    \cup {KeyP, Plus(KeyP, [first_seen |-> 0])}

PairInit ==
    /\ histFile \in {[kind |-> "array", records |-> <<e>>] : e \in PairStored}
    /\ verifiedFile = MissingFile
    /\ backupDir = NoBackup
    /\ archiveFile = MissingFile
    /\ clock = 0
    /\ outcome = "none"
    /\ steps = <<>>
    /\ prevHist = histFile
    /\ lastDoc = MissingFile
    /\ loaded = <<>>
    /\ merged = <<>>
    /\ events = <<>>
    /\ stats = NoStats
    /\ arg = <<>>
    /\ ret = <<>>
    /\ CsvIdle

PairNext ==
    \E n \in PairIncoming : clock = 0 /\ MergeOk([kind |-> "jobs", records |-> <<n>>])

PairSpec == PairInit /\ [][PairNext]_vars

--------------------------------------------------------------------------
(* One run over a batch of several records, with or without a store: the   *)
(* batch may hold the same position twice, a record with a blank title and *)
(* a record with no title at all.                                          *)

BlankTitle == [title |-> <<" ">>, organization |-> <<"b">>, location |-> <<"c">>]
NoTitle == [organization |-> <<"b">>, location |-> <<"c">>]

\* One position whose organization is spelt with a hyphen in one scrape and
\* with an en dash in another
OrgHyphen == [title |-> <<"a">>, organization |-> <<"b", "-", "c">>, location |-> <<"c">>]
OrgEnDash == [title |-> <<"a">>, organization |-> <<"b", "EN", "c">>, location |-> <<"c">>]

\* KeyE with a salary that is a list, alone and with text fields enough to
\* reach the completeness margin over KeyE
ListSalary == Plus(KeyE, [salary_range |-> <<"[", "x">>])
ListSalaryText == Plus(ListSalary, Text)

BatchRecords ==
    {KeyE, Plus(KeyV, Salary), KeyP, BlankTitle, NoTitle, OrgEnDash,
     ListSalary, ListSalaryText}

BatchStores ==
    {MissingFile,
     [kind |-> "array", records |-> <<KeyE>>],
     [kind |-> "array", records |-> <<Plus(NoTitle, Salary)>>],
     [kind |-> "array", records |-> <<OrgHyphen>>],
     [kind |-> "array", records |-> <<Plus(KeyV, Salary), KeyE>>]}

BatchInit ==
    /\ histFile \in BatchStores
    /\ verifiedFile \in InitVerified
    /\ backupDir = NoBackup
    /\ archiveFile = MissingFile
    /\ clock = 0
    /\ outcome = "none"
    /\ steps = <<>>
    /\ prevHist = histFile
    /\ lastDoc = MissingFile
    /\ loaded = <<>>
    /\ merged = <<>>
    /\ events = <<>>
    /\ stats = NoStats
    /\ arg = <<>>
    /\ ret = <<>>
    /\ CsvIdle

BatchNext ==
    \E s \in SeqsUpTo(BatchRecords, MaxJobs) :
        /\ clock = 0
        /\ \/ MergeOk([kind |-> "jobs", records |-> s])
           \/ MergeReconcileFails([kind |-> "jobs", records |-> s])

BatchSpec == BatchInit /\ [][BatchNext]_vars

--------------------------------------------------------------------------
(* Functions called alone: arg holds the arguments of the calls made, ret  *)
(* what they returned; no merge runs.                                      *)

MergeIdle ==
    /\ histFile = MissingFile
    /\ verifiedFile = MissingFile
    /\ backupDir = NoBackup
    /\ archiveFile = MissingFile
    /\ clock = 0
    /\ outcome = "none"
    /\ steps = <<>>
    /\ prevHist = MissingFile
    /\ lastDoc = MissingFile
    /\ loaded = <<>>
    /\ merged = <<>>
    /\ events = <<>>
    /\ stats = NoStats

--------------------------------------------------------------------------
(* calculate_data_completeness of a record, and of the record with one of  *)
(* its unfilled designated fields set to a value.                          *)

FieldSet == {fields_to_check[i] : i \in DOMAIN fields_to_check}

Full == [f \in FieldSet |-> <<"x">>]

Restrict(position, keys) == [k \in DOMAIN position \cap keys |-> position[k]]

\* a record with a blank string, an empty string, an empty list, a string
\* and a list of one string
MixedValues ==
    [salary_range |-> <<" ">>, description |-> <<>>, url |-> <<"[">>,
     job_id |-> <<"x">>, title |-> <<"[", "x">>]

\* records that lack at most MaxEmpty designated fields, records that have
\* at most MaxEmpty of them, and one with values of every kind
ScoreRecords ==
    LET few == {S \in SUBSET FieldSet : Cardinality(S) <= MaxEmpty}
    IN  {Restrict(Full, FieldSet \ S) : S \in few}
            \cup {Restrict(Full, S) : S \in few}
            \cup {MixedValues}

\* a blank string, a string, an empty list, a list of one string
FillValues == {<<" ">>, <<"x">>, <<"[">>, <<"[", "x">>}

ScoreInit ==
    /\ MergeIdle
    /\ CsvIdle
    /\ arg \in {<<position>> : position \in ScoreRecords}
    /\ ret = <<calculate_data_completeness(arg[1])>>

\* the score of the record with one more field set
ScoreFilled(field, value) ==
    /\ Len(arg) = 1
    /\ ~IsFilled(arg[1], field)
    /\ arg' = Append(arg, SetKey(arg[1], field, value))
    /\ ret' = Append(ret, calculate_data_completeness(arg'[2]))
    /\ UNCHANGED <<mergeVars, csvVars>>

ScoreNext == \E field \in FieldSet, value \in FillValues : ScoreFilled(field, value)

ScoreSpec == ScoreInit /\ [][ScoreNext]_vars

--------------------------------------------------------------------------
(* The rule-based classifier of scripts/improved_graduate_detection.py.    *)
(* A text is a sequence of words, each a string; its characters are those  *)
(* of the words and one blank between two words.  A regular expression of  *)
(* the classifier is a set of alternatives, each a sequence of sets of     *)
(* words: it is found in a text that has, somewhere, words of these sets   *)
(* one after the other.                                                    *)
(*                                                                         *)
(* The score is a float.  It is kept as [units, eps]: units is the decimal *)
(* value in hundredths, eps the side on which the float lies of the float  *)
(* nearest to that decimal value (0.5 + 0.3 - 0.1 - 0.1 is                 *)
(* 0.6000000000000001: units 60, eps 1).  Which side a sum of floats falls *)
(* on is not computed: every side is taken for a score that is a sum.      *)

min_reasonable_salary == 8000
max_reasonable_salary == 60000

LowerWord(w) ==
    CASE w = "Graduate" -> "graduate"
      [] w = "PhD" -> "phd"
      [] OTHER -> w

\* str.lower() of a text
LowerText(text) == [i \in DOMAIN text |-> LowerWord(text[i])]

\* len() of a text
RECURSIVE TextLen(_)
TextLen(text) ==
    IF text = <<>> THEN 0
    ELSE Len(Head(text)) + (IF Len(text) > 1 THEN 1 ELSE 0) + TextLen(Tail(text))

\* f"{title} {description}"
CombinedText(title, description) == title \o description

MatchesAt(text, i, alternative) ==
    \A k \in DOMAIN alternative : text[i + k - 1] \in alternative[k]

\* re.search(pattern, text, re.IGNORECASE) on a lowercased text
Search(pattern, text) ==
    \E alternative \in pattern :
        \E i \in 1..(Len(text) - Len(alternative) + 1) : MatchesAt(text, i, alternative)

RoleWords == {"student", "position", "assistantship", "opportunity"}

strong_grad_indicators ==
    << {<<{"ms", "m.s", "m.s.", "master", "masters", "master's"}, RoleWords>>},
       {<<{"phd", "ph.d", "ph.d.", "doctoral"}, RoleWords>>},
       {<<{"graduate"}, {"assistantship", "position"}>>,
        <<{"graduate"}, {"research"}, {"assistantship", "position"}>>},
       {<<{"research"}, {"assistantship"}>>},
       {<<{"grad"}, {"student", "position"}>>},
       {<<{"thesis"}, {"research", "project", "opportunity"}>>},
       {<<{"dissertation"}, {"research", "project"}>>},
       {<<{"graduate"}, {"student"}, {"position", "opportunity"}>>},
       {<<{"graduate"}, {"fellowship"}>>},
       {<<{"teaching"}, {"assistantship"}>>} >>

strong_non_grad_indicators ==
    << {<<{"5", "5+"}, {"year", "years"}, {"experience"}>>,
        <<{"5", "5+"}, {"year", "years"}, {"of"}, {"experience"}>>},
       {<<{"professional"}, {"experience"}>>},
       {<<{"career"}, {"opportunity"}>>},
       {<<{"full-time", "fulltime"}, {"permanent", "employee"}>>},
       {<<{"benefit", "benefits"}, {"package"}>>},
       {<<{"salary"}, {"range"}>>},
       {<<{"manager", "director", "coordinator", "supervisor"}>>},
       {<<{"postdoc", "postdoctoral", "post-doctoral"}>>},
       {<<{"faculty"}, {"position"}>>},
       {<<{"instructor"}, {"position"}>>},
       {<<{"professor"}, {"position"}>>},
       {<<{"technician"}, {"position"}>>},
       {<<{"specialist"}, {"position"}>>},
       {<<{"analyst"}, {"position"}>>} >>

\* sum(1 for pattern in patterns if re.search(pattern, combined_text, ...))
CountMatches(patterns, text) ==
    Cardinality({i \in DOMAIN patterns : Search(patterns[i], text)})

\* the words of the model that have 'graduate', one of 'master', 'ms', 'm.s',
\* one of 'phd', 'ph.d', 'doctoral', or 'assistantship' as a substring
WordsWithGraduate == {"graduate", "undergraduate"}
WordsWithMasters == {"ms", "masters", "programs"}
WordsWithPhd == {"phd"}
WordsWithAssistantship == {"assistantship"}

\* x in title, for the substrings above
HasWordOf(text, words) == \E i \in DOMAIN text : text[i] \in words

\* position.get(key, '') of a text, position.get('salary_lincoln_adjusted', 0)
GetText(position, key) == IF key \in DOMAIN position THEN position[key] ELSE <<>>
GetSalary(position) ==
    IF "salary_lincoln_adjusted" \in DOMAIN position
    THEN position["salary_lincoln_adjusted"] ELSE 0

extract_features(position) ==
    LET title == LowerText(GetText(position, "title"))
        description == LowerText(GetText(position, "description"))
        combined_text == CombinedText(title, description)
        salary == GetSalary(position)
    IN  [title_length |-> TextLen(title),
         description_length |-> TextLen(description),
         has_graduate_in_title |-> HasWordOf(title, WordsWithGraduate),
         has_masters_in_title |-> HasWordOf(title, WordsWithMasters),
         has_phd_in_title |-> HasWordOf(title, WordsWithPhd),
         has_assistantship_in_title |-> HasWordOf(title, WordsWithAssistantship),
         strong_grad_score |-> CountMatches(strong_grad_indicators, combined_text),
         strong_non_grad_score |-> CountMatches(strong_non_grad_indicators, combined_text),
         has_salary |-> salary > 0,
         reasonable_salary |-> IF salary > 0
                               THEN min_reasonable_salary <= salary
                                    /\ salary <= max_reasonable_salary
                               ELSE FALSE,
         very_low_salary |-> 0 < salary /\ salary < min_reasonable_salary,
         very_high_salary |-> salary > max_reasonable_salary]

\* floats: a decimal value in hundredths and the side the float lies on
Float(units) == [units |-> units, eps |-> 0]
FloatLess(a, b) == a.units < b.units \/ (a.units = b.units /\ a.eps < b.eps)
FloatLeq(a, b) == ~FloatLess(b, a)

\* max(a, b) and min(a, b) of Python: the first argument on a tie
PyMax(a, b) == IF FloatLess(a, b) THEN b ELSE a
PyMin(a, b) == IF FloatLess(b, a) THEN b ELSE a

\* the adjustments of the score, in the order of the code: [units, reason]
Adjustments(features) ==
    (IF features.strong_grad_score > 0
     THEN <<[units |-> 30 * features.strong_grad_score,
             reason |-> "Strong graduate indicators: "
                            \o ToString(features.strong_grad_score)]>>
     ELSE <<>>)
    \o (IF features.strong_non_grad_score > 0
        THEN <<[units |-> 0 - 40 * features.strong_non_grad_score,
                reason |-> "Strong non-graduate indicators: "
                               \o ToString(features.strong_non_grad_score)]>>
        ELSE <<>>)
    \o (IF features.has_assistantship_in_title
        THEN <<[units |-> 20, reason |-> "Title contains 'assistantship'"]>>
        ELSE <<>>)
    \o (IF features.has_graduate_in_title
        THEN <<[units |-> 15, reason |-> "Title contains 'graduate'"]>>
        ELSE <<>>)
    \o (IF features.has_masters_in_title \/ features.has_phd_in_title
        THEN <<[units |-> 10, reason |-> "Title mentions degree level"]>>
        ELSE <<>>)
    \o (IF features.very_high_salary
        THEN <<[units |-> -30, reason |-> "Salary too high for graduate assistantship"]>>
        ELSE IF features.very_low_salary
        THEN <<[units |-> -10, reason |-> "Salary suspiciously low"]>>
        ELSE IF features.reasonable_salary
        THEN <<[units |-> 10, reason |-> "Salary in reasonable range"]>>
        ELSE <<>>)
    \o (IF features.description_length < 50
        THEN <<[units |-> -10, reason |-> "Very short description"]>>
        ELSE <<>>)

RECURSIVE SumUnits(_)
SumUnits(adjustments) ==
    IF adjustments = <<>> THEN 0 ELSE Head(adjustments).units + SumUnits(Tail(adjustments))

\* the sides a float score may lie on: a score that is no sum is 0.5 itself
Sides(adjustments) == IF adjustments = <<>> THEN {0} ELSE {-1, 0, 1}

\* Mutant: the score is returned as the confidence, not clamped
Confidence_unclamped(score) == score

\* min(max(score, 0.0), 1.0)
Confidence(score) == PyMin(PyMax(score, Float(0)), Float(100))

\* Mutant: a score of 0.6 or more is a graduate position
IsGraduateScore_from(score) == FloatLeq(Float(60), score)

\* score > 0.6
IsGraduateScore(score) == FloatLess(Float(60), score)

\* rule_based_classification, with the side eps of its float score; score is
\* the local variable at the return
rule_based_classification(position, eps) ==
    LET adjustments == Adjustments(extract_features(position))
        score == [units |-> 50 + SumUnits(adjustments), eps |-> eps]
    IN  [is_graduate |-> IsGraduateScore(score),
         confidence |-> Confidence(score),
         reasons |-> [i \in DOMAIN adjustments |-> adjustments[i].reason],
         score |-> score]

\* Mutant: a confidence of exactly 0.4 or 0.6 is of medium priority
Priority_open(confidence) ==
    IF FloatLess(confidence, Float(40)) \/ FloatLess(Float(90), confidence) THEN "low"
    ELSE IF FloatLess(Float(40), confidence) /\ FloatLess(confidence, Float(60)) THEN "high"
    ELSE "medium"

\* the review priority of classify_position
Priority(confidence) ==
    IF FloatLess(confidence, Float(40)) \/ FloatLess(Float(90), confidence) THEN "low"
    ELSE IF FloatLeq(Float(40), confidence) /\ FloatLeq(confidence, Float(60)) THEN "high"
    ELSE "medium"

classify_position(position, eps) ==
    LET r == rule_based_classification(position, eps)
    IN  [is_graduate |-> r.is_graduate,
         confidence |-> r.confidence,
         priority |-> Priority(r.confidence),
         reasons |-> r.reasons,
         score |-> r.score]

\* The postings classified: every title with every description and salary;
\* the descriptions have 22, 81, 82, 49, 50 and 58 characters
Titles ==
    {<<"wildlife", "biologist">>,
     <<"Graduate", "research", "assistantship">>,
     <<"PhD", "student", "position">>,
     <<"programs", "manager">>,
     <<"undergraduate", "technician">>,
     <<"research">>}

Descriptions ==
    {<<"research", "assistantship">>,
     <<"graduate", "research", "assistantship", "and", "thesis", "research",
       "with", "a", "teaching", "assistantship">>,
     <<"5+", "years", "of", "professional", "experience", "as", "a", "manager",
       "salary", "range", "and", "benefits", "package">>,
     <<"field", "work", "with", "wildlife", "in", "the", "sandhills", "of", "iowa">>,
     <<"field", "work", "with", "wildlife", "in", "the", "sandhills", "of", "texas">>,
     <<"assistantship", "for", "a", "thesis", "project", "on", "wildlife", "in", "nebraska">>}

Salaries == {0, 7999, 8000, 60000, 60001}

Postings ==
    {Plus(Plus(t, d), a) :
        t \in Optional("title", Titles),
        d \in Optional("description", Descriptions),
        a \in Optional("salary_lincoln_adjusted", Salaries)}

ClassifyInit ==
    /\ MergeIdle
    /\ CsvIdle
    /\ arg \in {<<position>> : position \in Postings}
    /\ ret = <<>>

Classified(eps) ==
    /\ ret = <<>>
    /\ eps \in Sides(Adjustments(extract_features(arg[1])))
    /\ ret' = <<classify_position(arg[1], eps)>>
    /\ UNCHANGED <<arg, mergeVars, csvVars>>

ClassifyNext == \E eps \in {-1, 0, 1} : Classified(eps)

ClassifySpec == ClassifyInit /\ [][ClassifyNext]_vars

--------------------------------------------------------------------------
(* parse_salary of new_attempt.py.  A salary text is a sequence of tokens, *)
(* each a string without blanks, with one blank between two tokens.  An    *)
(* argument is [is_str, text]: is_str is false for a value that is no      *)
(* string.  A result is [is_none, halves]: None, or a number counted in    *)
(* halves (the mean of two whole numbers is a number of halves).           *)

LowerToken(token) ==
    CASE token = "TO" -> "to"
      [] token = "Per" -> "per"
      [] token = "Hour" -> "hour"
      [] token = "Negotiable" -> "negotiable"
      [] OTHER -> token

\* salary_str.lower().strip()
LowerTokens(text) == [i \in DOMAIN text |-> LowerToken(text[i])]

\* the tokens of the model that have "none", "commensurate" or "negotiable"
\* as a substring, and those that have "to" as a substring
TokensWithDefeatTerm == {"none", "commensurate", "negotiable", "nonexempt"}
TokensWithTo == {"to", "doctoral", "total"}

\* any(term in s for term in ["none", "commensurate", "negotiable"])
HasDefeatTerm(s) == \E i \in DOMAIN s : s[i] \in TokensWithDefeatTerm

\* s.replace("starting at", ""): the two tokens leave two blanks in a row,
\* an empty token between them
RECURSIVE RemoveStartingAt(_)
RemoveStartingAt(s) ==
    IF Len(s) >= 2 /\ s[1] = "starting" /\ s[2] = "at"
    THEN <<"">> \o RemoveStartingAt(SubSeq(s, 3, Len(s)))
    ELSE IF s = <<>> THEN <<>>
    ELSE <<Head(s)>> \o RemoveStartingAt(Tail(s))

\* float(num.replace(",", "")) raises ValueError
NotANumber == -1

\* re.findall(r"\d[\d,\.]*", token) with each match converted by
\* float(num.replace(",", "")), for the tokens of the model
NumbersIn(token) ==
    CASE token = "$20,000" -> <<20000>>
      [] token = "30,000" -> <<30000>>
      [] token = "30,001." -> <<30001>>
      [] token = "20,000-30,000" -> <<20000, 30000>>
      [] token = "1.2.3" -> <<NotANumber>>
      [] OTHER -> <<>>

RECURSIVE FindNumbers(_)
FindNumbers(s) == IF s = <<>> THEN <<>> ELSE NumbersIn(Head(s)) \o FindNumbers(Tail(s))

IsANumber(n) == n # NotANumber

\* phrase in s, for a phrase of two words
HasPhrase(s, first, second) ==
    \E i \in 1..(Len(s) - 1) : s[i] = first /\ s[i + 1] = second

Multiplier(s) ==
    IF HasPhrase(s, "per", "year") THEN 1
    ELSE IF HasPhrase(s, "per", "month") THEN 12
    ELSE IF HasPhrase(s, "per", "week") THEN 52
    ELSE IF HasPhrase(s, "per", "hour") THEN 2080
    ELSE 1

None == [is_none |-> TRUE, halves |-> 0]
Number(halves) == [is_none |-> FALSE, halves |-> halves]

\* "to" in s
HasTo(s) == \E i \in DOMAIN s : s[i] \in TokensWithTo

parse_salary(salary_str) ==
    IF ~salary_str.is_str THEN None
    ELSE LET lowered == LowerTokens(salary_str.text)
         IN  IF HasDefeatTerm(lowered) THEN None
             ELSE LET s == RemoveStartingAt(lowered)
                      numbers == FindNumbers(s)
                      values == SelectSeq(numbers, IsANumber)
                  IN  IF numbers = <<>> THEN None
                      ELSE IF values = <<>> THEN None
                      ELSE LET base_halves ==
                                   IF HasTo(s) /\ Len(values) >= 2
                                   THEN values[1] + values[2]
                                   ELSE 2 * values[1]
                           IN  Number(base_halves * Multiplier(s))

\* The salary texts: an amount, a word or none, a second amount or none, a
\* unit or none, and a closing word or none
FirstAmounts ==
    {<<>>, <<"$20,000">>, <<"starting", "at", "$20,000">>, <<"1.2.3">>,
     <<"20,000-30,000">>}
Connectors == {<<>>, <<"to">>, <<"TO">>, <<"-">>, <<"doctoral">>, <<"plus">>}
SecondAmounts == {<<>>, <<"30,000">>, <<"30,001.">>}
Units ==
    {<<>>, <<"per", "year">>, <<"per", "month">>, <<"per", "week">>, <<"per", "hour">>,
     <<"Per", "Hour">>, <<"per", "hour", "or", "per", "year">>, <<"hour">>}
Closings == {<<>>, <<"Negotiable">>, <<"commensurate">>, <<"nonexempt">>, <<"total">>}

SalaryTexts ==
    {a \o c \o b \o u \o e :
        a \in FirstAmounts, c \in Connectors, b \in SecondAmounts,
        u \in Units, e \in Closings}

SalaryArgs ==
    {[is_str |-> FALSE, text |-> <<>>]}
        \cup {[is_str |-> TRUE, text |-> t] : t \in SalaryTexts}

ParseInit ==
    /\ MergeIdle
    /\ CsvIdle
    /\ arg \in {<<a>> : a \in SalaryArgs}
    /\ ret = <<>>

SalaryParsed ==
    /\ ret = <<>>
    /\ ret' = <<parse_salary(arg[1])>>
    /\ UNCHANGED <<arg, mergeVars, csvVars>>

ParseSpec == ParseInit /\ [][SalaryParsed]_vars

--------------------------------------------------------------------------
(* extract_state of new_attempt.py.  A location is a string as above, a    *)
(* sequence of symbols: letters, the comma, the parentheses, the blank,    *)
(* and the phrase "remote work allowed" as one symbol, "rwa" in lower case *)
(* and "RWA" with capitals.  An argument is [is_str, text], a result       *)
(* [is_none, text].                                                        *)

NoState == [is_none |-> TRUE, text |-> <<>>]
State(text) == [is_none |-> FALSE, text |-> text]

LowerSymbol(c) == IF c = "RWA" THEN "rwa" ELSE c

\* "remote work allowed" in loc.lower()
HasRemote(loc) == \E i \in DOMAIN loc : LowerSymbol(loc[i]) = "rwa"

\* the places where r'\(([^)]+)\)\s*$' matches: an opening parenthesis at i,
\* one symbol or more that are no closing parenthesis, a closing parenthesis
\* at j, and nothing but blanks from there to the end
ParenMatches(loc) ==
    {m \in (DOMAIN loc) \X (DOMAIN loc) :
        /\ loc[m[1]] = "("
        /\ m[2] > m[1] + 1
        /\ loc[m[2]] = ")"
        /\ \A k \in (m[1] + 1)..(m[2] - 1) : loc[k] # ")"
        /\ \A k \in (m[2] + 1)..Len(loc) : loc[k] \in Whitespace}

\* re.search: the match that starts first
FirstMatch(matches) == CHOOSE m \in matches : \A n \in matches : m[1] <= n[1]

\* [p.strip() for p in s.split(",")][-1]
RECURSIVE AfterLastComma(_)
AfterLastComma(s) ==
    IF \E i \in DOMAIN s : s[i] = ","
    THEN AfterLastComma(Tail(s))
    ELSE s

LastPart(s) == Strip(AfterLastComma(s))

\* Mutant: the parentheses and the comma are looked at before the phrase
extract_state_remote_last(location_str) ==
    IF ~location_str.is_str THEN NoState
    ELSE LET loc == Strip(location_str.text)
             matches == ParenMatches(loc)
         IN  IF matches # {}
             THEN LET m == FirstMatch(matches)
                  IN  State(LastPart(SubSeq(loc, m[1] + 1, m[2] - 1)))
             ELSE IF \E i \in DOMAIN loc : loc[i] = "," THEN State(LastPart(loc))
             ELSE IF HasRemote(loc) THEN State(<<"Remote">>)
             ELSE NoState

extract_state(location_str) ==
    IF ~location_str.is_str THEN NoState
    ELSE LET loc == Strip(location_str.text)
             matches == ParenMatches(loc)
         IN  IF HasRemote(loc) THEN State(<<"Remote">>)
             ELSE IF matches # {}
             THEN LET m == FirstMatch(matches)
                  IN  State(LastPart(SubSeq(loc, m[1] + 1, m[2] - 1)))
             ELSE IF \E i \in DOMAIN loc : loc[i] = "," THEN State(LastPart(loc))
             ELSE NoState

LocationSymbols == {"a", "b", ",", "(", ")", " ", "rwa"}

\* Every string of up to MaxLoc symbols, a few longer ones, and a value that
\* is no string
Locations ==
    SeqsUpTo(LocationSymbols, MaxLoc)
        \cup {<<"a", " ", "(", "b", ",", " ", "a", ")", " ">>,
              <<"a", ",", " ", "b", " ", "(", "RWA", ")">>,
              <<"RWA", ",", " ", "a", ",", "b">>,
              <<" ", "a", ",", " ", "b", ",", " ", "a", " ">>}

LocationArgs ==
    {[is_str |-> FALSE, text |-> <<>>]}
        \cup {[is_str |-> TRUE, text |-> t] : t \in Locations}

StateInit ==
    /\ MergeIdle
    /\ CsvIdle
    /\ arg \in {<<a>> : a \in LocationArgs}
    /\ ret = <<>>

StateExtracted ==
    /\ ret = <<>>
    /\ ret' = <<extract_state(arg[1])>>
    /\ UNCHANGED <<arg, mergeVars, csvVars>>

StateSpec == StateInit /\ [][StateExtracted]_vars

--------------------------------------------------------------------------
(* Properties.  They speak of the last run: clock is its time, events its  *)
(* log, loaded and merged its two dicts, histFile what it left on disk.    *)

Hashes(records) == {generate_position_hash(records[i]) : i \in DOMAIN records}

Matched == {i \in DOMAIN events : events[i].matched}
Inserted == {i \in DOMAIN events : ~events[i].matched}
Winners == {i \in Matched : events[i].better}
Losers == {i \in Matched : ~events[i].better}

\* the value of a key as a sequence: empty when the record lacks the key
Field(position, key) == IF key \in DOMAIN position THEN <<position[key]>> ELSE <<>>

\* the keys the merge itself sets in a record it enhances
Marks == {"data_enhanced", "enhanced_at"}

\* C1: after a successful run the persisted positions array holds no two
\* records with the same identity hash.
C1_OnePostingPerHash ==
    outcome = "ok" =>
        \A i, j \in DOMAIN histFile.records :
            i # j => generate_position_hash(histFile.records[i])
                     # generate_position_hash(histFile.records[j])

\* C2: a successful run removes no position: every identity hash loaded from
\* the historical and the verified store is the hash of a persisted record.
C2_NoHashRemoved ==
    outcome = "ok" => DictKeys(loaded) \subseteq Hashes(histFile.records)

WithoutLastUpdated(position) == [k \in DOMAIN position \ {"last_updated"} |-> position[k]]

SameUpToLastUpdated(records1, records2) ==
    {WithoutLastUpdated(records1[i]) : i \in DOMAIN records1}
        = {WithoutLastUpdated(records2[i]) : i \in DOMAIN records2}

\* C4: a successful run of the document that the successful run before it
\* merged adds no position and leaves the same set of persisted records (up
\* to the last_updated time the second run stamps).
C4_SecondMergeIdempotent ==
    [][(outcome = "ok" /\ outcome' = "ok" /\ lastDoc' = lastDoc /\ clock' = clock + 1)
        => /\ stats'.new_positions_added = 0
           /\ SameUpToLastUpdated(histFile'.records, histFile.records)]_vars

C6_AllFieldsFromIncoming ==
    \A i \in Winners :
        \A k \in (DOMAIN events[i].result \cup DOMAIN events[i].new)
                    \ ({"first_seen"} \cup Marks) :
            Field(events[i].result, k) = Field(events[i].new, k)

\* C6 amended: the merged record of a winner has the incoming record's value
\* for every field the incoming record has, but first_seen, and the stored
\* record's value for every other field; data_enhanced is true, enhanced_at
\* the time of the run, and the run counts it as updated and as enhanced.
C6_FieldsOfIncomingOverStored ==
    /\ \A i \in Winners :
           LET n == events[i].new
               e == events[i].existing
               m == events[i].result
           IN  /\ DOMAIN m = DOMAIN e \cup (DOMAIN n \ {"first_seen"}) \cup Marks
               /\ \A k \in DOMAIN m \ Marks :
                      m[k] = IF k \in DOMAIN n \ {"first_seen"} THEN n[k] ELSE e[k]
               /\ m["data_enhanced"] = TRUE
               /\ m["enhanced_at"] = clock
               /\ DictGet(merged, events[i].hash) = m
    /\ outcome = "ok" =>
           /\ stats.positions_updated = Cardinality(Matched)
           /\ stats.positions_enhanced >= Cardinality(Winners)

\* C6 witness: a winner that lacks a field the stored record has.
C6_Witness ==
    /\ outcome = "ok"
    /\ \E i \in Winners :
           /\ "description" \in DOMAIN events[i].existing \ DOMAIN events[i].new
           /\ "salary_range" \in DOMAIN events[i].new
           /\ "first_seen" \in DOMAIN events[i].new

\* C7 as stated: when the incoming record does not win, the merged record
\* has the stored record's value for every field but last_updated, and its
\* data_enhanced is false.
C7_LoserKeepsStoredNotEnhanced ==
    \A i \in Losers :
        /\ \A k \in (DOMAIN events[i].result \cup DOMAIN events[i].existing) \ {"last_updated"} :
               Field(events[i].result, k) = Field(events[i].existing, k)
        /\ ~IsEnhanced(events[i].result)

\* C7 amended: when the incoming record does not win, the merged record has
\* the stored record's value for every field but last_updated, data_enhanced
\* and enhanced_at among them: data_enhanced is true only if the stored
\* record had it true.
C7_LoserKeepsStored ==
    \A i \in Losers :
        /\ \A k \in (DOMAIN events[i].result \cup DOMAIN events[i].existing) \ {"last_updated"} :
               Field(events[i].result, k) = Field(events[i].existing, k)
        /\ IsEnhanced(events[i].result) <=> IsEnhanced(events[i].existing)
        /\ DictGet(merged, events[i].hash) = events[i].result

\* C7 witness: a loser with a filled salary other than the stored one, one
\* field more complete than the stored record.
C7_Witness ==
    \E i \in Losers :
        /\ IsFilled(events[i].new, "salary_range")
        /\ IsFilled(events[i].existing, "salary_range")
        /\ events[i].new["salary_range"] # events[i].existing["salary_range"]
        /\ calculate_data_completeness(events[i].new)
               = calculate_data_completeness(events[i].existing) + 1

\* C8: the enhanced counter of a run is the number of incoming records that
\* won in that run.
C8_EnhancedCountsWinners ==
    outcome = "ok" => stats.positions_enhanced = Cardinality(Winners)

\* C9: every merged record of a matched incoming record, winner or not, has
\* last_updated = the time of the run.
C9_LastUpdatedOnEveryTouch ==
    \A i \in Matched : Field(events[i].result, "last_updated") = <<clock>>

\* C10: a run that fails before the new store file has been put in place
\* leaves the store file as it was.
C10_FailureLeavesStore ==
    (outcome = "raised" /\ \A i \in DOMAIN steps : steps[i] # "write")
        => histFile = prevHist


\* C11: a run ends in one of two ways: it returns its statistics and the
\* store file holds the whole reconciled mapping, or it raises and the store
\* file is what it was before the run, whichever step failed.
C11_StatsOrStoreUnchanged ==
    /\ outcome = "ok" =>
           histFile = [kind |-> "positions", records |-> DictValues(merged)]
    /\ outcome = "raised" => histFile = prevHist

\* the steps of a run in the order of merge_data
StepOrder == <<"backup", "load_historical", "load_new", "reconcile", "write", "archive">>

IsPrefix(s, t) == Len(s) <= Len(t) /\ s = SubSeq(t, 1, Len(s))

\* C12: the steps a run completed are an initial part of backup, load
\* historical, load incoming, reconcile, write, archive; a run changes the
\* store file only with the copies of both store files, as they were before
\* the run, in the backup directory; a run whose backup failed loaded and
\* reconciled nothing and wrote neither the store file nor an archive file.
C12_BackupThenLoadReconcilePersist ==
    /\ [](/\ IsPrefix(steps, StepOrder)
          /\ (outcome = "raised" /\ steps = <<>>)
                 => /\ loaded = <<>> /\ merged = <<>> /\ events = <<>>
                    /\ histFile = prevHist)
    /\ [][/\ histFile' # histFile
                 => backupDir' = [historical |-> histFile, verified |-> verifiedFile]
          /\ (outcome' = "raised" /\ steps' = <<>>)
                 => histFile' = histFile /\ archiveFile' = archiveFile]_vars

\* C12 witness: the backup of a run failed after an earlier run had written
\* the store file.
C12_Witness ==
    /\ clock = 2
    /\ outcome = "raised"
    /\ steps = <<>>
    /\ histFile.kind = "positions"
    /\ histFile.records # <<>>


\* C13: store files that do not exist are no error for the load; when neither
\* exists, a run that succeeds has loaded nothing, inserts one record for
\* every distinct identity hash of the incoming batch, reports that number as
\* new_added and reports updated = 0.
C13_MissingStoreIsEmptyStore ==
    /\ (histFile.kind = "missing" /\ verifiedFile.kind = "missing")
           => ~LoadHistoricalRaises(histFile, verifiedFile)
    /\ (outcome = "ok" /\ prevHist.kind = "missing" /\ verifiedFile.kind = "missing")
           => /\ loaded = <<>>
              /\ stats.historical_positions = 0
              /\ stats.new_positions_added = Cardinality(Hashes(lastDoc.records))
              /\ stats.positions_updated = 0
              /\ Hashes(histFile.records) = Hashes(lastDoc.records)
              /\ Len(histFile.records) = Cardinality(Hashes(lastDoc.records))

\* C13 witness: with no store file, a batch of two records of one position.
C13_Witness ==
    /\ outcome = "ok"
    /\ prevHist.kind = "missing"
    /\ verifiedFile.kind = "missing"
    /\ Len(lastDoc.records) = 2
    /\ Cardinality(Hashes(lastDoc.records)) = 1
    /\ stats.new_positions_added = 1

\* title.strip() is empty, the title key present or not
HasBlankTitle(position) == Strip(Get(position, "title")) = <<>>

\* C14: an incoming record whose title is missing or blank is rejected: the
\* run processes no such record, so it inserts none and matches none against
\* a stored record.
C14_BlankTitleRejected ==
    \A i \in DOMAIN events : ~HasBlankTitle(events[i].new)


\* the normalization in the words of the claim: lowercase, trim, dashes to a
\* plain hyphen, organization-type suffixes removed
Normalized(s) == RemoveOrgSuffixes(ReplaceDashes(Strip(Lower(s))))

NormalizedTriple(position) ==
    <<Normalized(Get(position, "title")), Normalized(Get(position, "organization")),
      Normalized(Get(position, "location"))>>

\* the records a run had before it: those of the store file and of the batch
RecordsOfRun ==
    {prevHist.records[i] : i \in DOMAIN prevHist.records}
        \cup {lastDoc.records[i] : i \in DOMAIN lastDoc.records}

\* C15: two postings whose title, organization and location are the same
\* after normalization have the same identity hash, whatever their other
\* fields are.
C15_SameNormalizedSameHash ==
    \A p1, p2 \in RecordsOfRun :
        NormalizedTriple(p1) = NormalizedTriple(p2)
            => generate_position_hash(p1) = generate_position_hash(p2)


\* the designated fields whose value the second scored record has set
FieldsSet == {f \in FieldSet : Field(arg[1], f) # Field(arg[2], f)}

\* a non-empty string or a non-empty list
IsNonEmpty(value) == IF IsList(value) THEN Len(value) > 1 ELSE value # <<>>

\* a string that is not empty after trimming, or a non-empty list
IsNonBlank(value) == IF IsList(value) THEN Len(value) > 1 ELSE Strip(value) # <<>>

\* C16 as stated: setting a designated field that was empty to a non-empty
\* string or a non-empty list raises the score; the score is in [0,1]
\* (0..13 over 13).
C16_FillingRaisesScore ==
    /\ \A i \in DOMAIN ret : ret[i] \in 0..13
    /\ Len(arg) = 2 =>
           \A f \in FieldsSet : IsNonEmpty(arg[2][f]) => ret[2] > ret[1]

\* C16 amended: setting a designated field that was empty to a string that
\* is not empty after trimming, or to a non-empty list, raises the score;
\* the score is in [0,1] (0..13 over 13).
C16_FillingNonBlankRaisesScore ==
    /\ \A i \in DOMAIN ret : ret[i] \in 0..13
    /\ Len(arg) = 2 =>
           \A f \in FieldsSet : IsNonBlank(arg[2][f]) => ret[2] > ret[1]

\* C16 witness: a field the record lacked was set to a non-empty list, in a
\* record without any filled field.
C16_Witness ==
    /\ Len(arg) = 2
    /\ ret[1] = 0
    /\ \E f \in FieldsSet : f \notin DOMAIN arg[1] /\ IsList(arg[2][f]) /\ ret[2] = 1


\* C17: the confidence returned is the score clamped to [0,1] and is_graduate
\* is true exactly when the score, not clamped, is greater than 0.6; so the
\* confidence is in [0,1] and is_graduate implies confidence > 0.6.
C17_ConfidenceIsClampedScore ==
    \A i \in DOMAIN ret :
        LET r == ret[i]
            zero == [units |-> 0, eps |-> 0]
            one == [units |-> 100, eps |-> 0]
            limit == [units |-> 60, eps |-> 0]
        IN  /\ r.confidence = IF FloatLess(r.score, zero) THEN zero
                              ELSE IF FloatLess(one, r.score) THEN one
                              ELSE r.score
            /\ r.is_graduate <=> FloatLess(limit, r.score)
            /\ FloatLeq(zero, r.confidence) /\ FloatLeq(r.confidence, one)
            /\ r.is_graduate => FloatLess(limit, r.confidence)

\* C17 witness: a posting whose score is above 1 was classified (a graduate
\* position with confidence 1).
C17_Witness ==
    \E i \in DOMAIN ret :
        /\ ret[i].score.units > 100
        /\ ret[i].is_graduate
        /\ ret[i].confidence = [units |-> 100, eps |-> 0]

\* C18: every confidence has one review priority: high from 0.4 to 0.6, both
\* included, low below 0.4 and above 0.9, medium otherwise; no posting that
\* is classified a graduate position has priority high.
C18_PriorityOfConfidence ==
    \A i \in DOMAIN ret :
        LET r == ret[i]
            c == r.confidence
            ambiguous == /\ FloatLeq([units |-> 40, eps |-> 0], c)
                         /\ FloatLeq(c, [units |-> 60, eps |-> 0])
            sure == \/ FloatLess(c, [units |-> 40, eps |-> 0])
                    \/ FloatLess([units |-> 90, eps |-> 0], c)
        IN  /\ r.priority \in {"high", "low", "medium"}
            /\ r.priority = "high" <=> ambiguous
            /\ r.priority = "low" <=> sure
            /\ r.priority = "medium" <=> (~ambiguous /\ ~sure)
            /\ r.is_graduate => r.priority # "high"

\* C18 witness: a posting with a confidence of exactly 0.6 (0.5 + 0.1) was
\* classified: it is no graduate position and its priority is high.
C18_Witness ==
    \E i \in DOMAIN ret :
        /\ ret[i].reasons = <<"Salary in reasonable range">>
        /\ ret[i].confidence = [units |-> 60, eps |-> 0]
        /\ ret[i].priority = "high"
        /\ ~ret[i].is_graduate


\* the claim's reading of a salary text: its words without regard to case,
\* its numeric tokens, and its unit
WordsOf(text) == LowerTokens(text)
NumericTokens(text) == SelectSeq(FindNumbers(WordsOf(text)), IsANumber)
UnitFactor(text) ==
    LET w == WordsOf(text)
        has(unit) == \E i \in 1..(Len(w) - 1) : w[i] = "per" /\ w[i + 1] = unit
    IN  IF has("year") THEN 1
        ELSE IF has("month") THEN 12
        ELSE IF has("week") THEN 52
        ELSE IF has("hour") THEN 2080
        ELSE 1

\* C19: no value for a text that is absent, contains "commensurate",
\* "negotiable" or "none", or has no numeric token; otherwise base times
\* multiplier, the base being the mean of the first two numeric tokens if
\* the text has the word "to" and two numeric tokens, the first numeric
\* token otherwise (values in halves).
C19_ParseSalaryRule ==
    \A i \in DOMAIN ret :
        LET a == arg[i]
            w == WordsOf(a.text)
            n == NumericTokens(a.text)
            defeated == \E k \in DOMAIN w :
                            w[k] \in {"none", "commensurate", "negotiable", "nonexempt"}
            word_to == \E k \in DOMAIN w : w[k] = "to"
        IN  IF ~a.is_str \/ defeated \/ n = <<>>
            THEN ret[i].is_none
            ELSE /\ ~ret[i].is_none
                 /\ ret[i].halves =
                        (IF word_to /\ Len(n) >= 2 THEN n[1] + n[2] ELSE 2 * n[1])
                            * UnitFactor(a.text)


\* the claim's reading of a location: the string without the blanks around
\* it; it ends in a parenthesized suffix if its last symbol closes a
\* parenthesis that holds a symbol or more, none of them a closing
\* parenthesis; the suffix is taken from the first parenthesis that opens it
Trimmed(text) == Strip(text)

Openings(loc) ==
    {i \in DOMAIN loc :
        /\ loc[i] = "("
        /\ loc[Len(loc)] = ")"
        /\ i + 1 < Len(loc)
        /\ \A k \in (i + 1)..(Len(loc) - 1) : loc[k] # ")"}

InsideParentheses(loc) ==
    LET i == CHOOSE o \in Openings(loc) : \A q \in Openings(loc) : o <= q
    IN  SubSeq(loc, i + 1, Len(loc) - 1)

HasComma(loc) == \E i \in DOMAIN loc : loc[i] = ","

\* the last of the parts of s that the commas separate, without the blanks
\* around it
LastComponent(s) ==
    LET commas == {i \in DOMAIN s : s[i] = ","}
        from == IF commas = {} THEN 1
                ELSE 1 + CHOOSE i \in commas : \A j \in commas : j <= i
    IN  Strip(SubSeq(s, from, Len(s)))

ContainsRemote(loc) == \E i \in DOMAIN loc : loc[i] \in {"rwa", "RWA"}

\* C20 as stated: a location that ends in a parenthesized suffix gives the
\* last comma-separated component inside the parentheses; one that does not
\* but has a comma gives its last comma-separated component; one with
\* neither and without "remote work allowed" gives no value.
C20_StateOfLocation ==
    \A i \in DOMAIN ret :
        arg[i].is_str =>
            LET loc == Trimmed(arg[i].text)
            IN  IF Openings(loc) # {}
                THEN ret[i] = [is_none |-> FALSE, text |-> LastComponent(InsideParentheses(loc))]
                ELSE IF HasComma(loc)
                THEN ret[i] = [is_none |-> FALSE, text |-> LastComponent(loc)]
                ELSE ~ContainsRemote(loc) => ret[i].is_none

\* C20 amended: a location that contains "remote work allowed", in any case,
\* gives "Remote", whatever else it contains; any other location gives what
\* C20 states; a value that is no string gives no value.
C20_RemoteThenStateOfLocation ==
    \A i \in DOMAIN ret :
        IF ~arg[i].is_str THEN ret[i].is_none
        ELSE LET loc == Trimmed(arg[i].text)
             IN  IF ContainsRemote(loc)
                 THEN ret[i] = [is_none |-> FALSE, text |-> <<"Remote">>]
                 ELSE IF Openings(loc) # {}
                 THEN ret[i] = [is_none |-> FALSE,
                                text |-> LastComponent(InsideParentheses(loc))]
                 ELSE IF HasComma(loc)
                 THEN ret[i] = [is_none |-> FALSE, text |-> LastComponent(loc)]
                 ELSE ret[i].is_none

\* C20 witness: the state of a location that ends in parentheses with two
\* components inside was extracted.
C20_Witness ==
    \E i \in DOMAIN ret :
        /\ arg[i].text = <<"a", " ", "(", "b", ",", " ", "a", ")", " ">>
        /\ ret[i] = [is_none |-> FALSE, text |-> <<"a">>]


\* the documented shapes of a JSON document: a bare array, an object with a
\* positions array, an object with a jobs array
DocumentedShapes == {"array", "positions", "jobs"}

\* C21: an incoming document of any documented shape is read without error
\* and every record of its array takes part in the merge: after a successful
\* run every identity hash of the document is a key of the merged mapping,
\* and no run fails at the load of an incoming document of such a shape.
C21_EveryShapeLoaded ==
    /\ (outcome = "ok" /\ lastDoc.kind \in DocumentedShapes)
           => Hashes(lastDoc.records) \subseteq DictKeys(merged)
    /\ (outcome = "raised" /\ steps = <<"backup", "load_historical">>)
           => lastDoc.kind \notin DocumentedShapes


\* C22: a value of one field that is no string never aborts the batch: no
\* run of merge_data over well-formed documents raises in the reconcile
\* loop.
C22_FieldProblemNeverAborts ==
    outcome = "raised" => steps # <<"backup", "load_historical", "load_new">>


\* ---------------------------------------------------------------------
\* Records that carry a derived attribute: a store of one record whose
\* completeness_score is the score of its fields, merged with one incoming
\* record of the same hash, with a score of its own or with none.

\* the record with the score of its fields stored in it
Scored(position) ==
    Plus(position, [completeness_score |-> calculate_data_completeness(position)])

DerivedFields ==
    {Plus(Plus(a, b), c) :
        a \in Optional("salary_range", {<<"x">>}),
        b \in Optional("application_deadline", {<<"x">>}),
        c \in Optional("description", {<<"x">>})}

DerivedStored == {Scored(Plus(KeyE, f)) : f \in DerivedFields}

DerivedIncoming ==
    {Plus(KeyE, f) : f \in DerivedFields} \cup DerivedStored

DerivedInit ==
    /\ histFile \in {[kind |-> "array", records |-> <<e>>] : e \in DerivedStored}
    /\ verifiedFile = MissingFile
    /\ backupDir = NoBackup
    /\ archiveFile = MissingFile
    /\ clock = 0
    /\ outcome = "none"
    /\ steps = <<>>
    /\ prevHist = histFile
    /\ lastDoc = MissingFile
    /\ loaded = <<>>
    /\ merged = <<>>
    /\ events = <<>>
    /\ stats = NoStats
    /\ arg = <<>>
    /\ ret = <<>>
    /\ CsvIdle

DerivedNext ==
    \E n \in DerivedIncoming :
        clock = 0 /\ MergeOk([kind |-> "jobs", records |-> <<n>>])

DerivedSpec == DerivedInit /\ [][DerivedNext]_vars

\* C23: after a merge, a stored record's completeness_score is the score of
\* the fields the record now has.
C23_DerivedAttributesFresh ==
    outcome = "ok" =>
        \A i \in DOMAIN histFile.records :
            LET position == histFile.records[i]
            IN  "completeness_score" \in DOMAIN position =>
                    position.completeness_score = calculate_data_completeness(position)


\* one adjustment of the score when the condition holds, none otherwise
When(condition, units, reason) ==
    IF condition THEN <<[units |-> units, reason |-> reason]>> ELSE <<>>

\* the words of the model that name a degree level
DegreeLevelWords == {"ms", "masters", "phd"}

MentionsDegreeLevel(title) == \E i \in DOMAIN title : title[i] \in DegreeLevelWords

\* the adjustments the rule names for a posting, in the order it names them
DocumentedAdjustments(position) ==
    LET title == LowerText(GetText(position, "title"))
        description == LowerText(GetText(position, "description"))
        text == CombinedText(title, description)
        grad == CountMatches(strong_grad_indicators, text)
        non_grad == CountMatches(strong_non_grad_indicators, text)
        salary == GetSalary(position)
    IN  When(grad > 0, 30 * grad, "Strong graduate indicators: " \o ToString(grad))
        \o When(non_grad > 0, 0 - 40 * non_grad,
                "Strong non-graduate indicators: " \o ToString(non_grad))
        \o When(\E i \in DOMAIN title : title[i] = "assistantship", 20,
                "Title contains 'assistantship'")
        \o When(\E i \in DOMAIN title : title[i] \in {"graduate", "undergraduate"}, 15,
                "Title contains 'graduate'")
        \o When(MentionsDegreeLevel(title), 10, "Title mentions degree level")
        \o When(salary > 60000, -30, "Salary too high for graduate assistantship")
        \o When(0 < salary /\ salary < 8000, -10, "Salary suspiciously low")
        \o When(8000 <= salary /\ salary <= 60000, 10, "Salary in reasonable range")
        \o When(TextLen(description) < 50, -10, "Very short description")

\* C24: the score of a classified posting is 0.5 plus the adjustments the
\* rule names, and the reasons are one per adjustment, in the rule's order.
C24_ScoreIsAdditive ==
    ret # <<>> =>
        LET documented == DocumentedAdjustments(arg[1])
        IN  /\ ret[1].score.units = 50 + SumUnits(documented)
            /\ ret[1].reasons = [i \in DOMAIN documented |-> documented[i].reason]


\* ---------------------------------------------------------------------
\* The discipline of a position (comprehensive_dashboard_generator.py).
\* A text is the sequence of its characters.

LowerLetter(c) ==
    CASE c = "B" -> "b"
      [] c = "F" -> "f"
      [] OTHER -> c

\* str.lower() of a text of characters
LowerLetters(text) == [i \in DOMAIN text |-> LowerLetter(text[i])]

\* keyword in text
Occurs(keyword, text) ==
    \E i \in 1..(Len(text) - Len(keyword) + 1) :
        SubSeq(text, i, i + Len(keyword) - 1) = keyword

\* the disciplines dict, in insertion order
disciplines ==
    << [name |-> "Wildlife Management",
        keywords |-> <<<<"w", "i", "l", "d", "l", "i", "f", "e">>,
                      <<"d", "e", "e", "r">>,
                      <<"e", "l", "k">>,
                      <<"b", "e", "a", "r">>,
                      <<"u", "n", "g", "u", "l", "a", "t", "e">>,
                      <<"m", "a", "m", "m", "a", "l">>,
                      <<"c", "a", "r", "n", "i", "v", "o", "r", "e">>>>],
       [name |-> "Fisheries",
        keywords |-> <<<<"f", "i", "s", "h">>,
                      <<"a", "q", "u", "a", "t", "i", "c">>,
                      <<"s", "t", "r", "e", "a", "m">>,
                      <<"r", "i", "v", "e", "r">>,
                      <<"s", "a", "l", "m", "o", "n">>,
                      <<"t", "r", "o", "u", "t">>,
                      <<"f", "i", "s", "h", "e", "r", "i", "e", "s">>>>],
       [name |-> "Ecology",
        keywords |-> <<<<"e", "c", "o", "l", "o", "g", "y">>,
                      <<"e", "c", "o", "s", "y", "s", "t", "e", "m">>,
                      <<"c", "o", "m", "m", "u", "n", "i", "t", "y">>,
                      <<"p", "o", "p", "u", "l", "a", "t", "i", "o", "n">>,
                      <<"b", "i", "o", "d", "i", "v", "e", "r", "s", "i", "t", "y">>>>],
       [name |-> "Conservation",
        keywords |-> <<<<"c", "o", "n", "s", "e", "r", "v", "a", "t", "i", "o", "n">>,
                      <<"r", "e", "s", "t", "o", "r", "a", "t", "i", "o", "n">>,
                      <<"h", "a", "b", "i", "t", "a", "t">>,
                      <<"p", "r", "e", "s", "e", "r", "v", "e">>,
                      <<"p", "r", "o", "t", "e", "c", "t", "e", "d">>>>],
       [name |-> "Environmental Science",
        keywords |-> <<<<"e", "n", "v", "i", "r", "o", "n", "m", "e", "n", "t">>,
                      <<"p", "o", "l", "l", "u", "t", "i", "o", "n">>,
                      <<"c", "o", "n", "t", "a", "m", "i", "n", "a", "t", "i", "o", "n">>,
                      <<"c", "l", "i", "m", "a", "t", "e">>>>],
       [name |-> "Forestry",
        keywords |-> <<<<"f", "o", "r", "e", "s", "t">>,
                      <<"t", "r", "e", "e">>,
                      <<"t", "i", "m", "b", "e", "r">>,
                      <<"s", "i", "l", "v", "i", "c", "u", "l", "t", "u", "r", "e">>,
                      <<"w", "o", "o", "d", "l", "a", "n", "d">>>>],
       [name |-> "Marine Science",
        keywords |-> <<<<"m", "a", "r", "i", "n", "e">>,
                      <<"o", "c", "e", "a", "n">>,
                      <<"c", "o", "a", "s", "t", "a", "l">>,
                      <<"r", "e", "e", "f">>,
                      <<"s", "e", "a">>>>],
       [name |-> "Ornithology",
        keywords |-> <<<<"b", "i", "r", "d">>,
                      <<"a", "v", "i", "a", "n">>,
                      <<"w", "a", "t", "e", "r", "f", "o", "w", "l">>,
                      <<"r", "a", "p", "t", "o", "r">>,
                      <<"m", "i", "g", "r", "a", "t", "i", "o", "n">>>>],
       [name |-> "Botany",
        keywords |-> <<<<"p", "l", "a", "n", "t">>,
                      <<"v", "e", "g", "e", "t", "a", "t", "i", "o", "n">>,
                      <<"f", "l", "o", "r", "a">>,
                      <<"b", "o", "t", "a", "n", "i", "c", "a", "l">>>>],
       [name |-> "Human Dimensions",
        keywords |-> <<<<"h", "u", "m", "a", "n">>,
                      <<"s", "o", "c", "i", "a", "l">>,
                      <<"s", "t", "a", "k", "e", "h", "o", "l", "d", "e", "r">>,
                      <<"c", "o", "m", "m", "u", "n", "i", "t", "y">>,
                      <<"o", "u", "t", "r", "e", "a", "c", "h">>>>] >>

\* Mutant: title and description joined with nothing between them
text_to_check_joined(position) ==
    LowerLetters(GetText(position, "title")) \o LowerLetters(GetText(position, "description"))

\* f"{title} {description}" of the lowercased title and description
text_to_check(position) ==
    LowerLetters(GetText(position, "title")) \o <<" ">>
        \o LowerLetters(GetText(position, "description"))

\* any(keyword in text for keyword in keywords)
AnyKeyword(keywords, text) == \E k \in DOMAIN keywords : Occurs(keywords[k], text)

classify_discipline(position) ==
    LET text == text_to_check(position)
        matching == {i \in DOMAIN disciplines : AnyKeyword(disciplines[i].keywords, text)}
    IN  IF matching = {} THEN "Other"
        ELSE disciplines[CHOOSE i \in matching : \A j \in matching : i <= j].name

\* The positions classified: every title with every description
DisciplineTitles ==
    {<<"B", "i", "r", "d", " ", "s", "u", "r", "v", "e", "y">>,
     <<"g", "r", "a", "s", "s">>,
     <<"d", "e", "e", "r", " ", "a", "n", "d", " ", "f", "i", "s", "h">>,
     <<"r", "e", "s", "e", "a", "r", "c", "h">>,
     <<"f", "i", "e", "l", "d", " ", "c", "r", "e", "w">>,
     <<"c", "o", "m", "m", "u", "n", "i", "t", "y", " ", "o", "u", "t", "r", "e", "a", "c", "h">>,
     <<"F", "o", "r", "e", "s", "t", " ", "p", "l", "a", "n", "t">>,
     <<"o", "c", "e", "a", "n", " ", "c", "l", "i", "m", "a", "t", "e">>}

DisciplineDescriptions ==
    {<<"e", "a", "g", "l", "e", " ", "n", "e", "s", "t">>,
     <<"t", "r", "o", "u", "t", " ", "s", "t", "r", "e", "a", "m">>,
     <<"h", "a", "b", "i", "t", "a", "t", " ", "w", "o", "r", "k">>,
     <<"w", "i", "l", "d", "l", "i", "f", "e">>,
     <<"h", "u", "m", "a", "n">>,
     <<"l", "a", "b">>,
     <<"F", "l", "o", "r", "a">>,
     <<"t", "i", "m", "b", "e", "r">>}

DisciplinePositions ==
    {Plus(t, d) :
        t \in Optional("title", DisciplineTitles),
        d \in Optional("description", DisciplineDescriptions)}

DisciplineInit ==
    /\ MergeIdle
    /\ CsvIdle
    /\ arg \in {<<position>> : position \in DisciplinePositions}
    /\ ret = <<>>

DisciplineClassified ==
    /\ ret = <<>>
    /\ ret' = <<classify_discipline(arg[1])>>
    /\ UNCHANGED <<arg, mergeVars, csvVars>>

DisciplineSpec == DisciplineInit /\ [][DisciplineClassified]_vars

\* the fixed order of the disciplines
DisciplineOrder ==
    <<"Wildlife Management", "Fisheries", "Ecology", "Conservation",
      "Environmental Science", "Forestry", "Marine Science", "Ornithology",
      "Botany", "Human Dimensions">>

\* the discipline of that name has a keyword in the lowercased title or in
\* the lowercased description
HasKeywordOf(name, position) ==
    \E i \in DOMAIN disciplines :
        /\ disciplines[i].name = name
        /\ \E k \in DOMAIN disciplines[i].keywords :
              \/ Occurs(disciplines[i].keywords[k], LowerLetters(GetText(position, "title")))
              \/ Occurs(disciplines[i].keywords[k],
                        LowerLetters(GetText(position, "description")))

\* C25: the discipline returned is the first of the fixed order with a
\* keyword in the lowercased title or description, and "Other" when none
\* has one.
C25_FirstMatchingDiscipline ==
    ret # <<>> =>
        IF \E i \in DOMAIN DisciplineOrder : HasKeywordOf(DisciplineOrder[i], arg[1])
        THEN \E i \in DOMAIN DisciplineOrder :
                /\ ret[1] = DisciplineOrder[i]
                /\ HasKeywordOf(DisciplineOrder[i], arg[1])
                /\ \A j \in 1..(i - 1) : ~HasKeywordOf(DisciplineOrder[j], arg[1])
        ELSE ret[1] = "Other"

\* a position with keywords of Ecology and of Human Dimensions is Ecology
C25_Witness ==
    /\ ret = <<"Ecology">>
    /\ HasKeywordOf("Human Dimensions", arg[1])


\* ---------------------------------------------------------------------
\* convert_monthly_to_annual of enhanced_dashboard_data.py.  A salary value
\* is None or a number of dollars; the original salary text is None or a
\* sequence of tokens.

NoAmount == [is_none |-> TRUE, amount |-> 0]
Amount(n) == [is_none |-> FALSE, amount |-> n]

LowerUnit(token) ==
    CASE token = "Month" -> "month"
      [] token = "Monthly" -> "monthly"
      [] OTHER -> token

\* the tokens of the model that have "month" as a substring
TokensWithMonth == {"month", "months", "monthly", "bimonthly"}

\* 'month' in salary_lower, where salary_lower is
\* salary_original.lower() if salary_original else ""
HasMonth(salary_original) ==
    /\ salary_original.is_str
    /\ \E i \in DOMAIN salary_original.text :
          LowerUnit(salary_original.text[i]) \in TokensWithMonth

\* Mutant: the text is not looked at
convert_monthly_to_annual_by_value(salary_value, salary_original) ==
    IF salary_value.is_none \/ salary_value.amount = 0 THEN salary_value
    ELSE IF salary_value.amount < 8000 /\ salary_value.amount >= 800
    THEN Amount(salary_value.amount * 12)
    ELSE salary_value

convert_monthly_to_annual(salary_value, salary_original) ==
    IF salary_value.is_none \/ salary_value.amount = 0 THEN salary_value
    ELSE IF HasMonth(salary_original) /\ salary_value.amount > 0
    THEN IF salary_value.amount < 5000 THEN Amount(salary_value.amount * 12)
         ELSE IF salary_value.amount < 8000 THEN Amount(salary_value.amount * 12)
         ELSE salary_value
    ELSE IF 1000 <= salary_value.amount /\ salary_value.amount <= 4000
    THEN Amount(salary_value.amount * 12)
    ELSE IF salary_value.amount < 8000 /\ salary_value.amount >= 800
    THEN Amount(salary_value.amount * 12)
    ELSE salary_value

\* The values and texts converted
SalaryValues ==
    {NoAmount}
        \cup {Amount(n) : n \in {-500, 0, 1, 500, 799, 800, 999, 1000, 4000, 4001,
                                 4999, 5000, 7999, 8000, 8001, 96000}}

OriginalTexts ==
    {[is_str |-> FALSE, text |-> <<>>]}
        \cup {[is_str |-> TRUE, text |-> t] :
                t \in {<<>>, <<"per", "month">>, <<"Monthly", "stipend">>,
                       <<"12", "months">>, <<"bimonthly">>, <<"per", "year">>,
                       <<"stipend">>}}

ConvertInit ==
    /\ MergeIdle
    /\ CsvIdle
    /\ arg \in {<<v, t>> : v \in SalaryValues, t \in OriginalTexts}
    /\ ret = <<>>

Converted ==
    /\ ret = <<>>
    /\ ret' = <<convert_monthly_to_annual(arg[1], arg[2])>>
    /\ UNCHANGED <<arg, mergeVars, csvVars>>

ConvertSpec == ConvertInit /\ [][Converted]_vars

\* the value lies in the band 800 <= value < 8000
InBand(salary_value) ==
    ~salary_value.is_none /\ 800 <= salary_value.amount /\ salary_value.amount < 8000

\* the value is positive and under the band
UnderBand(salary_value) ==
    ~salary_value.is_none /\ 0 < salary_value.amount /\ salary_value.amount < 800

\* the original text has "month" in it, in any case
MentionsMonth(salary_original) ==
    /\ salary_original.is_str
    /\ \E i \in DOMAIN salary_original.text :
          salary_original.text[i] \in
              {"month", "Month", "months", "monthly", "Monthly", "bimonthly"}

\* C26 as stated: the values of the band are multiplied by 12 and every
\* other value is returned unchanged, whatever the original text.
C26_BandTimesTwelve ==
    ret # <<>> =>
        ret[1] = IF InBand(arg[1]) THEN Amount(12 * arg[1].amount) ELSE arg[1]

\* C26: the values of the band, and the positive values under the band
\* whose original text has "month", are multiplied by 12; every other
\* value, a value of 8000 or more, 0 and None among them, is returned
\* unchanged.
C26_BandOrMonthTimesTwelve ==
    ret # <<>> =>
        ret[1] = IF InBand(arg[1]) \/ (UnderBand(arg[1]) /\ MentionsMonth(arg[2]))
                 THEN Amount(12 * arg[1].amount)
                 ELSE arg[1]

\* a value under the band with a monthly text was multiplied
C26_Witness ==
    /\ ret = <<Amount(6000)>>
    /\ arg[1] = Amount(500)
    /\ MentionsMonth(arg[2])


\* ---------------------------------------------------------------------
\* consolidate_discipline and generate_export_data of
\* enhanced_dashboard_data.py.  A discipline is a string; the salary value
\* and text of a position are as above.

discipline_mapping ==
    << [k |-> "Fisheries Science",
        v |-> "Fisheries Management and Conservation"],
       [k |-> "Fisheries Management and Conservation",
        v |-> "Fisheries Management and Conservation"],
       [k |-> "Wildlife Ecology",
        v |-> "Wildlife Management and Conservation"],
       [k |-> "Wildlife Management and Conservation",
        v |-> "Wildlife Management and Conservation"],
       [k |-> "Conservation Biology",
        v |-> "Wildlife Management and Conservation"],
       [k |-> "Human Dimensions",
        v |-> "Human Dimensions"],
       [k |-> "Environmental Science",
        v |-> "Habitat and Environmental Science"],
       [k |-> "Quantitative Ecology",
        v |-> "Habitat and Environmental Science"],
       [k |-> "Ecosystem Ecology",
        v |-> "Habitat and Environmental Science"],
       [k |-> "Ecotoxicology",
        v |-> "Habitat and Environmental Science"],
       [k |-> "Fire Ecology",
        v |-> "Habitat and Environmental Science"],
       [k |-> "Climate Science",
        v |-> "Habitat and Environmental Science"],
       [k |-> "Other",
        v |-> "Other"],
       [k |-> "Genetics/Genomics",
        v |-> "Other"],
       [k |-> "Non-Graduate",
        v |-> "Other"] >>

\* discipline_mapping.get(discipline, 'Other')
consolidate_discipline(discipline) ==
    IF DictHas(discipline_mapping, discipline)
    THEN DictGet(discipline_mapping, discipline)
    ELSE "Other"

\* pos.get(key, default)
GetOr(pos, key, default) == IF key \in DOMAIN pos THEN pos[key] ELSE default

EmptyText == [is_str |-> TRUE, text |-> <<>>]

\* the record generate_export_data makes of one position
clean_pos(pos) ==
    LET original_discipline_primary == GetOr(pos, "discipline_primary", "")
        original_discipline_secondary == GetOr(pos, "discipline_secondary", "")
        salary_adjusted == GetOr(pos, "salary_lincoln_adjusted", Amount(0))
        salary_original == GetOr(pos, "salary", EmptyText)
    IN  [title |-> GetOr(pos, "title", ""),
         organization |-> GetOr(pos, "organization", ""),
         location |-> GetOr(pos, "location", ""),
         discipline_primary |-> consolidate_discipline(original_discipline_primary),
         discipline_secondary |->
             IF original_discipline_secondary # ""
             THEN consolidate_discipline(original_discipline_secondary)
             ELSE "",
         salary_original |-> salary_original,
         salary_lincoln_adjusted |->
             IF ~salary_adjusted.is_none /\ salary_adjusted.amount > 0
             THEN convert_monthly_to_annual(salary_adjusted, salary_original)
             ELSE salary_adjusted,
         cost_of_living_index |-> GetOr(pos, "cost_of_living_index", ""),
         geographic_region |-> GetOr(pos, "geographic_region", ""),
         starting_date |-> GetOr(pos, "starting_date", ""),
         published_date |-> GetOr(pos, "published_date", ""),
         tags |-> GetOr(pos, "tags", ""),
         first_seen |-> GetOr(pos, "first_seen", ""),
         last_updated |-> GetOr(pos, "last_updated", "")]

\* the five categories
Categories ==
    {"Fisheries Management and Conservation", "Wildlife Management and Conservation",
     "Human Dimensions", "Habitat and Environmental Science", "Other"}

\* The positions exported: the disciplines of the mapping, the five
\* categories and some disciplines that are not in the mapping
Unmapped == {"Fisheries", "Wildlife Management", "other", "Unknown"}

Disciplines == DictKeys(discipline_mapping) \cup Categories \cup Unmapped

ExportPositions ==
    {Plus(Plus(p, s), a) :
        p \in Optional("discipline_primary", Disciplines \cup {""}),
        s \in Optional("discipline_secondary",
                       {"", "Other", "Fisheries Science", "Unknown", "Human Dimensions"}),
        a \in {NoFields,
               [salary |-> [is_str |-> TRUE, text |-> <<"per", "month">>],
                salary_lincoln_adjusted |-> Amount(1000),
                title |-> "t"]}}

ExportInit ==
    /\ MergeIdle
    /\ CsvIdle
    /\ arg \in {<<pos>> : pos \in ExportPositions}
    /\ ret = <<>>

Exported ==
    /\ ret = <<>>
    /\ ret' = <<clean_pos(arg[1])>>
    /\ UNCHANGED <<arg, mergeVars, csvVars>>

ExportSpec == ExportInit /\ [][Exported]_vars

\* C28: the consolidated discipline of an exported position is one of the
\* five categories, consolidating it again does not change it, and a
\* position whose discipline is one of the five categories keeps it.
C28_ConsolidateIdempotent ==
    ret # <<>> =>
        /\ ret[1].discipline_primary \in Categories
        /\ consolidate_discipline(ret[1].discipline_primary) = ret[1].discipline_primary
        /\ GetOr(arg[1], "discipline_primary", "") \in Categories =>
              ret[1].discipline_primary = arg[1].discipline_primary


\* ---------------------------------------------------------------------
\* update_master_csv of new_attempt.py (defined twice there, with the same
\* body).  A table is [kind, columns, rows]: the column names in order and
\* one sequence of cells per row, a cell being a sequence of tokens and the
\* empty sequence a cell with no value.  A file holds a table, or part of
\* one after a write that failed.

Table(columns, rows) == [kind |-> "csv", columns |-> columns, rows |-> rows]

\* col.strip()
StripColumn(col) == IF col = " Posting URL " THEN "Posting URL" ELSE col

\* [col.strip() for col in df.columns]
StripColumns(df) ==
    [df EXCEPT !.columns = [i \in DOMAIN df.columns |-> StripColumn(df.columns[i])]]

\* name in df.columns
HasColumn(df, name) == \E i \in DOMAIN df.columns : df.columns[i] = name

\* the cell of a row of df in the column of that name, none when df has no
\* such column
Cell(df, row, name) ==
    IF HasColumn(df, name)
    THEN row[CHOOSE i \in DOMAIN df.columns : df.columns[i] = name]
    ELSE <<>>

\* url.split("id=")[-1]
job_id(url) ==
    LET at == {i \in DOMAIN url : url[i] = "id="}
    IN  IF at = {} THEN url
        ELSE SubSeq(url, (CHOOSE i \in at : \A j \in at : j <= i) + 1, Len(url))

\* df["Posting URL"].apply(lambda url: url.split("id=")[-1])
JobIds(df) == [i \in DOMAIN df.rows |-> job_id(Cell(df, df.rows[i], "Posting URL"))]

\* pd.concat([master_df, new_data], ignore_index=True): the columns of the
\* first and then those only the second has, and the rows of both
Concat(master_df, new_data) ==
    LET columns == master_df.columns
                       \o SelectSeq(new_data.columns,
                                    LAMBDA c : ~HasColumn(master_df, c))
        Aligned(df, row) == [i \in DOMAIN columns |-> Cell(df, row, columns[i])]
    IN  Table(columns,
              [i \in DOMAIN master_df.rows |-> Aligned(master_df, master_df.rows[i])]
                  \o [i \in DOMAIN new_data.rows |-> Aligned(new_data, new_data.rows[i])])

\* drop_duplicates(subset=["job_id"]): the first row of each job_id is kept
RECURSIVE KeepFirst(_, _, _)
KeepFirst(rows, ids, i) ==
    IF i > Len(rows) THEN <<>>
    ELSE (IF \E j \in 1..(i - 1) : ids[j] = ids[i] THEN <<>> ELSE <<rows[i]>>)
             \o KeepFirst(rows, ids, i + 1)

\* what update_master_csv computes before it writes: the counts and the
\* combined table
Combined(master, new_data) ==
    IF master.kind = "missing"
    THEN [new_jobs_count |-> Len(new_data.rows),
          total_jobs_count |-> Len(new_data.rows),
          combined_df |-> new_data]
    ELSE LET master_df == StripColumns(master)
             new_df == StripColumns(new_data)
             master_ids == JobIds(master_df)
             new_ids == JobIds(new_df)
             all == Concat(master_df, new_df)
             kept == KeepFirst(all.rows, master_ids \o new_ids, 1)
         IN  [new_jobs_count |->
                  Cardinality({i \in DOMAIN new_ids :
                                  \A j \in DOMAIN master_ids : master_ids[j] # new_ids[i]}),
              total_jobs_count |-> Len(kept),
              combined_df |-> Table(all.columns, kept)]

\* the early return: the master file exists and it or the new data has no
\* column 'Posting URL'
ReturnsEarly(master, new_data) ==
    /\ master.kind # "missing"
    /\ \/ ~HasColumn(StripColumns(master), "Posting URL")
       \/ ~HasColumn(StripColumns(new_data), "Posting URL")

\* return None, None
NoCounts == <<NoAmount, NoAmount>>

\* a call that has no column to go by
UpdateReturnsEarly(new_data) ==
    /\ ret = <<>>
    /\ ReturnsEarly(masterCsv, new_data)
    /\ arg' = <<new_data>>
    /\ ret' = NoCounts
    /\ UNCHANGED <<masterCsv, tmpCsv, mergeVars>>

\* a call that writes the temporary file and renames it
UpdateOk(new_data) ==
    /\ ret = <<>>
    /\ ~ReturnsEarly(masterCsv, new_data)
    /\ arg' = <<new_data>>
    /\ LET c == Combined(masterCsv, new_data)
       IN  /\ masterCsv' = c.combined_df
           /\ ret' = <<Amount(c.new_jobs_count), Amount(c.total_jobs_count)>>
    /\ tmpCsv' = NoCsv
    /\ UNCHANGED mergeVars

\* to_csv raises: the temporary file is as it was (it could not be opened)
\* or holds the rows written so far
UpdateWriteFails(new_data, written) ==
    /\ ret = <<>>
    /\ ~ReturnsEarly(masterCsv, new_data)
    /\ arg' = <<new_data>>
    /\ LET c == Combined(masterCsv, new_data)
       IN  /\ written \in 0..Len(c.combined_df.rows)
           /\ tmpCsv' \in {tmpCsv,
                            [kind |-> "partial", columns |-> c.combined_df.columns,
                             rows |-> SubSeq(c.combined_df.rows, 1, written)]}
    /\ ret' = NoCounts
    /\ UNCHANGED <<masterCsv, mergeVars>>

\* os.replace raises: the temporary file stays
UpdateReplaceFails(new_data) ==
    /\ ret = <<>>
    /\ ~ReturnsEarly(masterCsv, new_data)
    /\ arg' = <<new_data>>
    /\ tmpCsv' = Combined(masterCsv, new_data).combined_df
    /\ ret' = NoCounts
    /\ UNCHANGED <<masterCsv, mergeVars>>

\* The tables: urls of two jobs, one of them under two addresses, and a url
\* with no "id="
Url1 == <<"a?", "id=", "1">>
Url1b == <<"b?", "id=", "1">>
Url2 == <<"a?", "id=", "2">>
UrlPlain == <<"c">>

UrlColumns == {<<"Posting URL", "Title">>, <<"Title", " Posting URL ">>}

\* the row with that url and a title, in the order of the columns
RowOf(columns, url) ==
    [i \in DOMAIN columns |-> IF StripColumn(columns[i]) = "Posting URL" THEN url ELSE <<"t">>]

UrlTables(urls) ==
    {Table(columns, [i \in DOMAIN s |-> RowOf(columns, s[i])]) :
        columns \in UrlColumns, s \in urls}

\* a table with no column 'Posting URL'
NoUrlTable == Table(<<"Title">>, << <<<<"t">>>> >>)

MasterFiles ==
    {NoCsv, NoUrlTable} \cup UrlTables({<<>>, <<Url1>>, <<Url1, UrlPlain>>})

NewData ==
    {NoUrlTable} \cup UrlTables({<<Url1b>>, <<Url2>>, <<Url2, Url1, Url2>>})

\* a temporary file a run that failed has left
LeftOver == Table(<<"Title">>, <<>>)

CsvInit ==
    /\ MergeIdle
    /\ arg = <<>>
    /\ ret = <<>>
    /\ masterCsv \in MasterFiles
    /\ tmpCsv \in {NoCsv, LeftOver}

CsvNext ==
    \E new_data \in NewData :
        \/ UpdateReturnsEarly(new_data)
        \/ UpdateOk(new_data)
        \/ \E written \in 0..Len(masterCsv.rows) + Len(new_data.rows) :
               UpdateWriteFails(new_data, written)
        \/ UpdateReplaceFails(new_data)

CsvSpec == CsvInit /\ [][CsvNext]_vars

\* the column 'Posting URL', under that name after stripping, is missing
\* from the table
LacksPostingUrl(table) ==
    \A i \in DOMAIN table.columns : StripColumn(table.columns[i]) # "Posting URL"

\* C27: the master file changes only to the whole combined table, with the
\* temporary file renamed away; a call that returns (None, None) leaves the
\* master file unchanged; and a call with no 'Posting URL' column in the
\* master file or in the new data returns (None, None) and writes nothing.
C27_AtomicReplace ==
    [][/\ masterCsv' # masterCsv =>
            /\ masterCsv' = Combined(masterCsv, arg'[1]).combined_df
            /\ tmpCsv' = NoCsv
            /\ ret' # NoCounts
       /\ ret' = NoCounts => masterCsv' = masterCsv
       /\ (LacksPostingUrl(arg'[1])
              \/ (masterCsv.kind # "missing" /\ LacksPostingUrl(masterCsv))) =>
            /\ ret' = NoCounts
            /\ masterCsv' = masterCsv
            /\ tmpCsv' = tmpCsv]_vars


\* C29: the statistics of a run that succeeded add up: the total is the
\* historical count plus the added count and is the length of the positions
\* array written; preserved plus updated is the historical count; enhanced
\* is at most updated; preserved is not negative.
C29_StatsConsistent ==
    outcome = "ok" =>
        /\ stats.total_final_positions
               = stats.historical_positions + stats.new_positions_added
        /\ stats.total_final_positions = Len(histFile.records)
        /\ stats.positions_preserved + stats.positions_updated
               = stats.historical_positions
        /\ stats.positions_enhanced <= stats.positions_updated
        /\ stats.positions_preserved >= 0

\* a run that updated one record, added one and left one as it was
C29_Witness ==
    /\ outcome = "ok"
    /\ stats.positions_updated = 1
    /\ stats.new_positions_added = 1
    /\ stats.positions_preserved = 1


\* the last record of that hash in a sequence of records
LastWith(records, h) ==
    LET at == {i \in DOMAIN records : generate_position_hash(records[i]) = h}
    IN  records[CHOOSE i \in at : \A j \in at : j <= i]

\* the sequence has two records of one hash
HasDuplicates(records) == Cardinality(Hashes(records)) < Len(records)

\* C30: of the records of one hash in the incoming batch, and in the
\* historical store, the last one and no other takes part in the merge; the
\* others are not compared and not counted.
C30_LastDuplicateTakesPart ==
    outcome = "ok" =>
        /\ \A h \in Hashes(lastDoc.records) :
              /\ Cardinality({i \in DOMAIN events : events[i].hash = h}) = 1
              /\ \A i \in DOMAIN events :
                    events[i].hash = h => events[i].new = LastWith(lastDoc.records, h)
        /\ Len(events) = Cardinality(Hashes(lastDoc.records))
        /\ stats.positions_updated + stats.new_positions_added
               = Cardinality(Hashes(lastDoc.records))
        /\ \A h \in Hashes(PositionsOf(prevHist)) :
              /\ Cardinality({i \in DOMAIN loaded : loaded[i].k = h}) = 1
              /\ DictGet(loaded, h) = LastWith(prevHist.records, h)
        /\ stats.historical_positions
               = Cardinality(Hashes(PositionsOf(prevHist))
                                 \cup Hashes(PositionsOf(verifiedFile)))

\* a run over a store and a batch that both have two records of one hash
C30_Witness ==
    /\ outcome = "ok"
    /\ HasDuplicates(lastDoc.records)
    /\ HasDuplicates(PositionsOf(prevHist))
    /\ \E i \in DOMAIN events :
          events[i].matched /\ events[i].new # lastDoc.records[1]

==========================================================================
